---- MODULE Spec2Model ----
(***************************************************************************)
(* Model of the animation channel resampling of gltf_loader                *)
(* (src/gltf_loader/src/animation/mod.rs): GLTFAnimation::load decodes the *)
(* channels of one animation clip into cursors grouped by target node and  *)
(* merges the cursors of every node into one list of frames.               *)
(*                                                                         *)
(* Numbers.  f32 values are modelled as exact rationals extended with the  *)
(* IEEE specials +inf, -inf and NaN (signed zero is not modelled; rounding *)
(* is modelled where a quaternion is normalized and its angles extracted). *)
(* Times are counted in units of half a second, so the times 0.0, 0.5, 1.0 *)
(* of the source are 0, 1, 2 here.                                         *)
(* Quaternion::slerp belongs to the cgmath crate and is transcendental: it *)
(* is kept as an uninterpreted term over its three arguments.              *)
(***************************************************************************)
EXTENDS Integers, Sequences, FiniteSets, TLC

\* ------------------------------------------------------------------ bounds
\* Largest number of keyframes of one channel.
MaxLen == 2
\* Largest keyframe time (in half seconds).
MaxTime == 2
\* Number of morph targets of the animated mesh (floats per keyframe in a
\* MorphTargetWeights output buffer, length of a node's rest-pose weights).
MorphTargets == 2
\* Largest number of floats per keyframe of a MorphTargetWeights buffer.
MaxWeights == 5

\* ------------------------------------------------------- extended rationals
Abs(x) == IF x < 0 THEN -x ELSE x

RECURSIVE Gcd(_, _)
Gcd(a, b) == IF b = 0 THEN a ELSE Gcd(b, a % b)

\* The finite number n/d in lowest terms with a positive denominator.
Fin(n, d) ==
    LET s == IF d < 0 THEN -1 ELSE 1
        g == Gcd(Abs(n), Abs(d))
    IN  [k |-> "fin", n |-> (s * n) \div g, d |-> (s * d) \div g]

R(i) == [k |-> "fin", n |-> i, d |-> 1]
PosInf == [k |-> "inf", n |-> 1, d |-> 0]
NegInf == [k |-> "inf", n |-> -1, d |-> 0]
NaN == [k |-> "nan", n |-> 0, d |-> 0]

IsFin(a) == a.k = "fin"
IsNaN(a) == a.k = "nan"
Sign(a) == IF a.n > 0 THEN 1 ELSE IF a.n < 0 THEN -1 ELSE 0

XNeg(a) == IF IsFin(a) THEN [a EXCEPT !.n = -a.n]
           ELSE IF IsNaN(a) THEN NaN
           ELSE IF a.n > 0 THEN NegInf ELSE PosInf

XAdd(a, b) ==
    IF IsNaN(a) \/ IsNaN(b) THEN NaN
    ELSE IF IsFin(a) /\ IsFin(b) THEN Fin(a.n * b.d + b.n * a.d, a.d * b.d)
    ELSE IF IsFin(a) THEN b
    ELSE IF IsFin(b) THEN a
    ELSE IF a.n = b.n THEN a ELSE NaN

XSub(a, b) == XAdd(a, XNeg(b))

XMul(a, b) ==
    IF IsNaN(a) \/ IsNaN(b) THEN NaN
    ELSE IF IsFin(a) /\ IsFin(b) THEN Fin(a.n * b.n, a.d * b.d)
    ELSE IF Sign(a) * Sign(b) = 0 THEN NaN
    ELSE IF Sign(a) * Sign(b) > 0 THEN PosInf ELSE NegInf

\* f32 division of two finite numbers.
XDiv(a, b) ==
    IF b.n # 0 THEN Fin(a.n * b.d, a.d * b.n)
    ELSE IF a.n = 0 THEN NaN
    ELSE IF a.n > 0 THEN PosInf ELSE NegInf

\* a <= b on finite numbers.
XLeq(a, b) == IsFin(a) /\ IsFin(b) /\ a.n * b.d <= b.n * a.d

\* x lies between a and b (in either order); false of NaN and infinities.
XBetween(x, a, b) == (XLeq(a, x) /\ XLeq(x, b)) \/ (XLeq(b, x) /\ XLeq(x, a))

Vec3(s) == <<R(s), R(2 * s), R(-s)>>
Vec4(s) == <<R(0), R(s), R(0), R(s + 1)>>

\* ------------------------------------------------------------ program data
\* Width every decoded morph-weight vector is resized to.
WeightWidth == 4

Kinds == {"Translation", "Rotation", "Scaling", "MorphWeights"}

\* gltf::animation::Interpolation of a sampler.
GltfInterpolations == {"Linear", "Step", "CubicSpline"}

\* RotationTransform::Quaternion(q), q kept as <<x, y, z, w>>.
Quat(v) == [tag |-> "quat", v |-> v]

\* InterpolationTypes::convert
Convert(original) ==
    CASE original = "Linear" -> "Linear"
      [] original = "Step" -> "Step"
      [] original = "CubicSpline" -> "Cubic"

\* InterpolationTargets::default()
DefaultTargets ==
    [translation |-> "None", rotation |-> "None", scale |-> "None", weights |-> "None"]

\* usize::div_ceil
DivCeil(a, b) == (a + b - 1) \div b

\* Itertools::chunks(n) over a vector, n > 0.
RECURSIVE Chunks(_, _)
Chunks(s, n) ==
    IF Len(s) = 0 THEN <<>>
    ELSE IF Len(s) <= n THEN <<s>>
    ELSE <<SubSeq(s, 1, n)>> \o Chunks(SubSeq(s, n + 1, Len(s)), n)

\* Mutant of ResizeWith: the chunk is kept at its length.
KeepChunk(chunk, w) == chunk

\* Vec::resize_with(w, || 0.0)
ResizeWith(chunk, w) == [i \in 1..w |-> IF i <= Len(chunk) THEN chunk[i] ELSE R(0)]

Raw(kind, times, items) ==
    [fault |-> "none", kind |-> kind, times |-> times, items |-> items]

Panicked(why) == [fault |-> why, kind |-> "Translation", times |-> <<>>, items |-> <<>>]

\* GLTFAnimationRawValue::new.  A channel whose inputs cannot be read has
\* no frame times; fault names the panic the decoding ends in, if any.
RawValueNew(ch) ==
    LET frame_times == ch.inputs
        out == ch.outputs
    IN  CASE out.variant = "Translations" -> Raw("Translation", frame_times, out.values)
          [] out.variant = "Scales" -> Raw("Scaling", frame_times, out.values)
          [] out.variant = "Rotations" -> Raw("Rotation", frame_times, out.values)
          [] out.variant = "MorphTargetWeights" ->
                IF Len(frame_times) = 0 THEN Panicked("divide by zero")
                ELSE LET weight_num == DivCeil(Len(out.values), Len(frame_times))
                     IN  IF weight_num = 0 THEN Panicked("chunk size zero")
                         ELSE LET chunks == Chunks(out.values, weight_num)
                              IN  Raw("MorphWeights", frame_times,
                                      [i \in 1..Len(chunks) |->
                                          ResizeWith(chunks[i], WeightWidth)])
          [] out.variant = "Unreadable" -> Panicked("unreachable")

\* GLTFAnimationValue::from_node_defaults: rest is the node's decomposed
\* rest-pose transform and its weights (an empty sequence when it has none).
FromNodeDefaults(rest) ==
    [translation |-> rest.translation,
     rotation |-> Quat(rest.rotation),
     scale |-> rest.scale,
     weights |-> rest.weights]

\* GLTFAnimationValue::from_previous_frame
FromPreviousFrame(last_frame) ==
    [translation |-> last_frame.value.translation,
     rotation |-> last_frame.value.rotation,
     scale |-> last_frame.value.scale,
     weights |-> last_frame.value.weights]

\* ------------------------------------------------------------- the cursor
\* AnimationDataIterator::peek_time (index counts from 0).
PeekTime(c) ==
    IF c.index < Len(c.data.times)
    THEN [some |-> TRUE, time |-> c.data.times[c.index + 1]]
    ELSE [some |-> FALSE, time |-> 0]

\* Mutant of ShouldInterpolate: a keyframe at the frame's time is
\* interpolated like any other.
AlwaysInterpolate(this, times, new_time) ==
    IF this.index < Len(times)
    THEN [some |-> TRUE, time |-> times[this.index + 1]]
    ELSE [some |-> FALSE, time |-> 0]

\* should_interpolate
ShouldInterpolate(this, times, new_time) ==
    IF this.index < Len(times) /\ times[this.index + 1] # new_time
    THEN [some |-> TRUE, time |-> times[this.index + 1]]
    ELSE [some |-> FALSE, time |-> 0]

\* cgmath VectorSpace::lerp: self + ((other - self) * amount), per component.
Lerp(self, other, amount) ==
    [i \in 1..Len(self) |-> XAdd(self[i], XMul(XSub(other[i], self[i]), amount))]

\* RotationTransform::slerp: the quaternion slerp of cgmath, uninterpreted.
Slerp(self, other, amount) ==
    [tag |-> "slerp", from |-> self, to |-> other, amount |-> amount]

Min2(a, b) == IF a < b THEN a ELSE b

\* interpolate_weights: zip stops at the shorter of the two vectors.
InterpolateWeights(orig_val, new_val, amount) ==
    [i \in 1..Min2(Len(orig_val), Len(new_val)) |->
        XAdd(XMul(XSub(R(1), amount), orig_val[i]), XMul(amount, new_val[i]))]

\* The field of a frame value a channel of this kind animates.
GetProp(val, kind) ==
    CASE kind = "Translation" -> val.translation
      [] kind = "Rotation" -> val.rotation
      [] kind = "Scaling" -> val.scale
      [] kind = "MorphWeights" -> val.weights

SetProp(val, kind, x) ==
    CASE kind = "Translation" -> [val EXCEPT !.translation = x]
      [] kind = "Rotation" -> [val EXCEPT !.rotation = x]
      [] kind = "Scaling" -> [val EXCEPT !.scale = x]
      [] kind = "MorphWeights" -> [val EXCEPT !.weights = x]

\* new_val.into(): a raw item as the value of its property.
Into(kind, new_val) == IF kind = "Rotation" THEN Quat(new_val) ELSE new_val

\* $linear_func of the four instantiations of impl_raw_data_getter.
LinearFunc(kind, old, new_val, amount) ==
    CASE kind = "Translation" -> Lerp(old, new_val, amount)
      [] kind = "Rotation" -> Slerp(old, new_val, amount)
      [] kind = "Scaling" -> Lerp(old, new_val, amount)
      [] kind = "MorphWeights" -> InterpolateWeights(old, new_val, amount)

\* The value the Step arm of impl_raw_data_getter writes.
StepValue(old, new_val) == old

\* The match on interpolation_type in impl_raw_data_getter.
Interpolated(kind, interpolation_type, old, new_val, interp_amount) ==
    CASE interpolation_type = "None" -> Into(kind, new_val)
      [] interpolation_type = "Step" -> StepValue(old, new_val)
      [] interpolation_type = "Linear" -> LinearFunc(kind, old, new_val, interp_amount)
      [] interpolation_type = "Cubic" -> old

\* Mutant of Advance: the cursor skips a keyframe.
AdvanceTwice(index) == index + 2

\* self.index += 1
Advance(index) == index + 1

\* AnimationDataIterator::next: the cursor and the frame value after the
\* call; fault is "todo" when the Cubic arm is reached.
CursorNext(c, anim_val, new_frame_time) ==
    IF c.is_finished THEN [chan |-> c, value |-> anim_val, fault |-> "none"]
    ELSE IF c.index >= Len(c.data.items)
    THEN [chan |-> [c EXCEPT !.is_finished = TRUE], value |-> anim_val, fault |-> "none"]
    ELSE LET kind == c.data.kind
             new_val == c.data.items[c.index + 1]
             si == ShouldInterpolate(c, c.data.times, new_frame_time)
             interp_amount == XDiv(R(si.time), R(new_frame_time))
             old == GetProp(anim_val, kind)
             written == IF si.some
                        THEN Interpolated(kind, c.interpolation_type, old, new_val,
                                          interp_amount)
                        ELSE Into(kind, new_val)
             max_len == Len(c.data.times)
             index == Advance(c.index)
         IN  IF si.some /\ c.interpolation_type = "Cubic"
             THEN [chan |-> c, value |-> anim_val, fault |-> "todo"]
             ELSE [chan |-> [c EXCEPT !.index = index, !.is_finished = index >= max_len],
                   value |-> SetProp(anim_val, kind, written),
                   fault |-> "none"]

\* --------------------------------------------------------------- the merge
\* The key min_by_key orders a cursor by: its next time, or f32::MAX (larger
\* than every time of the model) when it has none.
MinKey(c) == LET p == PeekTime(c) IN IF p.some THEN <<0, p.time>> ELSE <<1, 0>>

KeyLess(a, b) == a[1] < b[1] \/ (a[1] = b[1] /\ a[2] < b[2])

\* Mutant of MinValue: the first cursor with the smallest key, Finished or
\* not.
MinOfAll(animation_channels) ==
    LET every == 1..Len(animation_channels)
    IN  IF every = {} THEN [some |-> FALSE, idx |-> 0, time |-> 0, fault |-> "none"]
        ELSE LET idx == CHOOSE i \in every :
                            \A j \in every :
                                /\ ~KeyLess(MinKey(animation_channels[j]),
                                            MinKey(animation_channels[i]))
                                /\ (j < i => KeyLess(MinKey(animation_channels[i]),
                                                     MinKey(animation_channels[j])))
                 p == PeekTime(animation_channels[idx])
             IN  [some |-> TRUE, idx |-> idx, time |-> p.time,
                  fault |-> IF p.some THEN "none" ELSE "unwrap"]

\* Mutant of MinValue: the first unfinished cursor, whatever its next time.
FirstLive(animation_channels) ==
    LET live == {i \in 1..Len(animation_channels) : ~animation_channels[i].is_finished}
    IN  IF live = {} THEN [some |-> FALSE, idx |-> 0, time |-> 0, fault |-> "none"]
        ELSE LET idx == CHOOSE i \in live : \A j \in live : i <= j
                 p == PeekTime(animation_channels[idx])
             IN  [some |-> TRUE, idx |-> idx, time |-> p.time,
                  fault |-> IF p.some THEN "none" ELSE "unwrap"]

\* min_value: the first unfinished cursor with the smallest key.  some is
\* FALSE when every cursor is finished; fault is "unwrap" when the selected
\* cursor has no next time.
MinValue(animation_channels) ==
    LET live == {i \in 1..Len(animation_channels) : ~animation_channels[i].is_finished}
    IN  IF live = {} THEN [some |-> FALSE, idx |-> 0, time |-> 0, fault |-> "none"]
        ELSE LET idx == CHOOSE i \in live :
                            \A j \in live :
                                /\ ~KeyLess(MinKey(animation_channels[j]),
                                            MinKey(animation_channels[i]))
                                /\ (j < i => KeyLess(MinKey(animation_channels[i]),
                                                     MinKey(animation_channels[j])))
                 p == PeekTime(animation_channels[idx])
             IN  [some |-> TRUE, idx |-> idx, time |-> p.time,
                  fault |-> IF p.some THEN "none" ELSE "unwrap"]

\* Mutant of SeedValue: every frame starts from the node defaults.
SeedFromDefaults(frames, min_iter) == min_iter.default_data

\* The value the next frame starts from.
SeedValue(frames, min_iter) ==
    IF Len(frames) = 0 THEN min_iter.default_data
    ELSE FromPreviousFrame(frames[Len(frames)])

\* The match on chan.data in the loop over the channels.
SetTarget(interpolation, chan) ==
    CASE chan.data.kind = "Translation" ->
            [interpolation EXCEPT !.translation = chan.interpolation_type]
      [] chan.data.kind = "Rotation" ->
            [interpolation EXCEPT !.rotation = chan.interpolation_type]
      [] chan.data.kind = "Scaling" ->
            [interpolation EXCEPT !.scale = chan.interpolation_type]
      [] chan.data.kind = "MorphWeights" ->
            [interpolation EXCEPT !.weights = chan.interpolation_type]

\* for chan in &mut animation_channels { ...; chan.next(..) }, from channel i
\* on; acc holds the channels already visited, the frame value, the recorded
\* interpolation targets and the fault that ended the loop, if any.
RECURSIVE ForEachChannel(_, _, _, _)
ForEachChannel(animation_channels, i, acc, min_val) ==
    IF i > Len(animation_channels) \/ acc.fault # "none" THEN acc
    ELSE LET r == CursorNext(animation_channels[i], acc.value, min_val)
         IN  ForEachChannel(animation_channels, i + 1,
                 [chans |-> Append(acc.chans, r.chan),
                  value |-> r.value,
                  interpolation |-> SetTarget(acc.interpolation, animation_channels[i]),
                  fault |-> r.fault],
                 min_val)

\* while let Some(min_iter) = min_value(..) { .. } run to its end from the
\* given cursors, frames and interpolation targets: the frames and targets
\* it leaves, and the fault that ended it, if any.
RECURSIVE MergeLoop(_, _, _)
MergeLoop(animation_channels, frames, interpolation) ==
    LET min_iter == MinValue(animation_channels)
    IN  IF ~min_iter.some
        THEN [frames |-> frames, interpolation |-> interpolation, fault |-> "none"]
        ELSE IF min_iter.fault # "none"
        THEN [frames |-> frames, interpolation |-> interpolation, fault |-> min_iter.fault]
        ELSE LET r == ForEachChannel(animation_channels, 1,
                          [chans |-> <<>>,
                           value |-> SeedValue(frames, animation_channels[min_iter.idx]),
                           interpolation |-> interpolation,
                           fault |-> "none"],
                          min_iter.time)
             IN  IF r.fault # "none"
                 THEN [frames |-> frames, interpolation |-> interpolation, fault |-> r.fault]
                 ELSE MergeLoop(r.chans,
                                Append(frames, [time |-> min_iter.time, value |-> r.value]),
                                r.interpolation)

\* Mutant of Duration: the time of the first frame.
DurationOfFirst(frames) == IF Len(frames) = 0 THEN 0 ELSE frames[1].time

\* animation_entry.duration after the loop.
Duration(frames) == IF Len(frames) = 0 THEN 0 ELSE frames[Len(frames)].time

\* The AnimationDataIterator pushed for a channel.
NewCursor(ch, rest) ==
    [index |-> 0,
     is_finished |-> FALSE,
     interpolation_type |-> Convert(ch.interpolation),
     data |-> RawValueNew(ch),
     default_data |-> FromNodeDefaults(rest[ch.node])]

\* Mutant of NewAnimation: every track names node 0 as its target.
NewAnimationOfFirstNode(node) ==
    [target |-> 0, frames |-> <<>>, interpolation |-> DefaultTargets, duration |-> 0]

\* The GLTFAnimation inserted for a node before its merge.
NewAnimation(node) ==
    [target |-> node, frames |-> <<>>, interpolation |-> DefaultTargets, duration |-> 0]

\* GLTFAnimation::load as a function of the clip: the track of every node
\* the clip targets (clips of valid channels, which load without a panic).
LoadedTracks(clip) ==
    [n \in {clip.channels[i].node : i \in 1..Len(clip.channels)} |->
        LET of_node == SelectSeq(clip.channels, LAMBDA ch : ch.node = n)
            merged == MergeLoop([i \in 1..Len(of_node) |-> NewCursor(of_node[i], clip.rest)],
                                <<>>, DefaultTargets)
        IN  [target |-> n, frames |-> merged.frames,
             interpolation |-> merged.interpolation,
             duration |-> Duration(merged.frames)]]

\* for animation in animation_result { for (node, anim_value) in animation
\* { res.entry(node).or_default().push(anim_value) } }
TracksByNode(animation_result) ==
    [n \in UNION {DOMAIN animation_result[i] : i \in 1..Len(animation_result)} |->
        LET of_node == SelectSeq(animation_result, LAMBDA r : n \in DOMAIN r)
        IN  [i \in 1..Len(of_node) |-> of_node[i][n]]]

\* ------------------------------------------------- the Ren'Py coordinates
\* f32::clamp
Clamp(a, lo, hi) == IF XLeq(a, lo) THEN lo ELSE IF XLeq(hi, a) THEN hi ELSE a

\* A result the model has no exact number for: fn applied to args.
Opaque(fn, args) == [k |-> "term", fn |-> fn, args |-> args]

\* f32::atan2(y, x) in degrees: exact on the axes and the diagonals.
Atan2Deg(y, x) ==
    IF ~(IsFin(y) /\ IsFin(x)) THEN Opaque("atan2", <<y, x>>)
    ELSE CASE Sign(y) = 0 /\ Sign(x) >= 0 -> R(0)
           [] Sign(y) = 0 /\ Sign(x) < 0 -> R(180)
           [] Sign(x) = 0 /\ Sign(y) > 0 -> R(90)
           [] Sign(x) = 0 /\ Sign(y) < 0 -> R(-90)
           [] Sign(x) # 0 /\ Sign(y) # 0 /\ (y = x \/ y = XNeg(x)) ->
                 R(Sign(y) * (IF Sign(x) > 0 THEN 45 ELSE 135))
           [] OTHER -> Opaque("atan2", <<y, x>>)

\* f32::asin(s) in degrees: exact at 0, 1/2 and 1, NaN outside [-1, 1].
AsinDeg(s) ==
    IF ~IsFin(s) THEN NaN
    ELSE CASE s = R(0) -> R(0)
           [] s = R(1) -> R(90)
           [] s = R(-1) -> R(-90)
           [] s = Fin(1, 2) -> R(30)
           [] s = Fin(-1, 2) -> R(-30)
           [] ~XLeq(s, R(1)) \/ ~XLeq(R(-1), s) -> NaN
           [] OTHER -> Opaque("asin", <<s>>)

\* The squared magnitude of a vector.
SumSq(v) ==
    LET RECURSIVE Sum(_)
        Sum(i) == IF i = 0 THEN R(0) ELSE XAdd(XMul(v[i], v[i]), Sum(i - 1))
    IN  Sum(Len(v))

\* Euler<Deg<f32>>
Degrees(x, y, z) == [tag |-> "deg", x |-> x, y |-> y, z |-> z]

\* The rotation has components and quat.normalize() leaves them as they are.
ExactUnit(quat) == quat.tag = "quat" /\ SumSq(quat.v) = R(1)

\* Bits of the significand of the floats the normalization and the Euler
\* extraction round to.  f32 has 24; the model's integers are 32 bits wide
\* and hold the products of two significands of this width only.
SignificandBits == 6

\* The float nearest to x, ties to the even significand (the rounding of
\* every f32 operation; no overflow or underflow at the model's sizes).
\* Rnd(n, d, up, down) is the rounding of n/d times up/down, up and down
\* powers of two.
Fl(x) ==
    IF ~IsFin(x) \/ x.n = 0 THEN x
    ELSE LET lo == 2 ^ (SignificandBits - 1)
             hi == 2 ^ SignificandBits
             RECURSIVE Rnd(_, _, _, _)
             Rnd(n, d, up, down) ==
                 IF n < lo * d THEN Rnd(2 * n, d, up, 2 * down)
                 ELSE IF n >= hi * d THEN Rnd(n, 2 * d, 2 * up, down)
                 ELSE LET m == n \div d
                          twice_rest == 2 * (n - m * d)
                      IN  Fin((IF twice_rest > d \/ (twice_rest = d /\ m % 2 = 1)
                               THEN m + 1 ELSE m) * up, down)
         IN  IF x.n > 0 THEN Rnd(x.n, x.d, 1, 1) ELSE XNeg(Rnd(-x.n, x.d, 1, 1))

\* f32::sqrt of a float s >= 0: the float nearest to the square root.
\* Root(n, d, up, down) is the rounded root of n/d times up/down.
FlSqrt(s) ==
    IF ~IsFin(s) \/ s.n = 0 THEN s
    ELSE LET lo == 2 ^ (SignificandBits - 1)
             hi == 2 ^ SignificandBits
             RECURSIVE Root(_, _, _, _)
             Root(n, d, up, down) ==
                 IF n < lo * lo * d THEN Root(4 * n, d, up, 2 * down)
                 ELSE IF n >= hi * hi * d THEN Root(n, 4 * d, 2 * up, down)
                 ELSE LET m == CHOOSE k \in lo..(hi - 1) :
                                   /\ k * k * d <= n
                                   /\ n < (k + 1) * (k + 1) * d
                      IN  Fin((IF 4 * n > (2 * m + 1) * (2 * m + 1) * d
                               THEN m + 1 ELSE m) * up, down)
         IN  Root(s.n, s.d, 1, 1)

\* Quaternion::normalize of cgmath on <<x, y, z, w>>:
\* self * (1 / sqrt(s * s + (x * x + y * y + z * z))), every operation
\* rounded.  The zero quaternion gives 0 * inf = NaN in every component.
Normalize(v) ==
    LET sq(i) == Fl(XMul(v[i], v[i]))
        dot == Fl(XAdd(sq(4), Fl(XAdd(Fl(XAdd(sq(1), sq(2))), sq(3)))))
        k == Fl(XDiv(R(1), FlSqrt(dot)))
    IN  [i \in 1..4 |-> Fl(XMul(v[i], k))]

\* quaterions_to_zyx_euler: roll, pitch and yaw in degrees of a quaternion
\* with components, every operation rounded.  Terms is given the normalized
\* components, Angles the five sums of products.
QuaterionsToZyxEuler(quat) ==
    IF quat.tag # "quat" THEN Opaque("zyx_euler", <<quat>>)
    ELSE LET M(a, b) == Fl(XMul(a, b))
             A(a, b) == Fl(XAdd(a, b))
             S(a, b) == Fl(XSub(a, b))
             Angles(sin_r_cos_p, cos_r_cos_p, sin_p, sin_y_cos_p, cos_y_cos_p) ==
                 Degrees(Atan2Deg(sin_r_cos_p, cos_r_cos_p),
                         AsinDeg(sin_p),
                         IF XLeq(R(1), sin_r_cos_p) \/ XLeq(sin_r_cos_p, R(-1)) THEN R(0)
                         ELSE Atan2Deg(sin_y_cos_p, cos_y_cos_p))
             Sums(qx, qy, qz, qw, sqx, sqy, sqz) ==
                 Angles(Clamp(M(R(2), A(M(qw, qx), M(qy, qz))), R(-1), R(1)),
                        S(R(1), M(R(2), A(sqx, sqy))),
                        M(R(2), S(M(qw, qy), M(qz, qx))),
                        M(R(2), A(M(qw, qz), M(qx, qy))),
                        S(R(1), M(R(2), A(sqy, sqz))))
             Terms(q) == Sums(q[1], q[2], q[3], q[4],
                              M(q[1], q[1]), M(q[2], q[2]), M(q[3], q[3]))
         IN  Terms(Normalize(quat.v))

\* quaterions_to_zyx_euler2
QuaterionsToZyxEuler2(quat) ==
    IF ~ExactUnit(quat) THEN Opaque("zyx_euler2", <<quat>>)
    ELSE LET qx == quat.v[1]
             qy == quat.v[2]
             qz == quat.v[3]
             qw == quat.v[4]
             sinx_cosp == XMul(R(2), XAdd(XMul(qw, qx), XMul(qy, qz)))
             cosx_cosp == XSub(R(1), XMul(R(2), XAdd(XMul(qx, qx), XMul(qy, qy))))
             siny == XMul(R(2), XSub(XMul(qw, qy), XMul(qz, qx)))
             sinz_cosp1 == XMul(R(2), XSub(XMul(qx, qy), XMul(qw, qz)))
             cosz_cosp1 == XSub(R(1), XMul(R(2), XAdd(XMul(qx, qx), XMul(qz, qz))))
             sinz_cosp2 == XMul(R(2), XAdd(XMul(qw, qz), XMul(qx, qy)))
             cosz_cosp2 == XSub(R(1), XMul(R(2), XAdd(XMul(qy, qy), XMul(qz, qz))))
         IN  IF XLeq(R(1), siny)
             THEN Degrees(R(0), R(90), Atan2Deg(sinz_cosp1, cosz_cosp1))
             ELSE IF XLeq(siny, R(-1))
             THEN Degrees(R(0), R(-90), Atan2Deg(sinz_cosp1, cosz_cosp1))
             ELSE Degrees(Atan2Deg(sinx_cosp, cosx_cosp),
                          AsinDeg(siny),
                          Atan2Deg(sinz_cosp2, cosz_cosp2))

\* -x of an angle in degrees.
NegDeg(a) == IF a.k = "term" THEN Opaque("neg", <<a>>) ELSE XNeg(a)

\* rot.x.0 = rot.x.0.neg(); rot.z.0 = rot.z.0.neg()
NegateXZ(angles) ==
    IF angles.tag = "deg"
    THEN Degrees(NegDeg(angles.x), angles.y, NegDeg(angles.z))
    ELSE Opaque("neg_xz", <<angles>>)

\* RotationTransform::Euler(e)
Euler(angles) == [tag |-> "euler", angles |-> angles]

\* Quaternion::new(q.s, -q.v.x, q.v.y, -q.v.z); the result of a slerp is a
\* quaternion the model has no components of.
FlipXZ(q) ==
    IF q.tag = "quat"
    THEN Quat(<<XNeg(q.v[1]), q.v[2], XNeg(q.v[3]), q.v[4]>>)
    ELSE [tag |-> "flip_xz", of |-> q]

\* Mutant of AsRenpyCoords: the transform is left in glTF coordinates.
GltfCoords(transform, keep_rotation_format) == transform

\* DecomposedTransform::as_renpy_coords (and to_renpy_coords, which calls
\* it on a copy): the transform after the call.
AsRenpyCoords(transform, keep_rotation_format) ==
    [translation |-> <<transform.translation[1], XNeg(transform.translation[2]),
                       transform.translation[3]>>,
     rotation |->
        IF transform.rotation.tag = "euler"
        THEN Euler(NegateXZ(QuaterionsToZyxEuler(
                       [tag |-> "from_euler", of |-> transform.rotation])))
        ELSE LET rot == FlipXZ(transform.rotation)
             IN  IF keep_rotation_format THEN rot
                 ELSE Euler(QuaterionsToZyxEuler(rot)),
     scale |-> transform.scale]

\* DecomposedTransform::convert_from_gltf of a node's rest pose.
ConvertFromGltf(rest) ==
    [translation |-> rest.translation, rotation |-> Quat(rest.rotation),
     scale |-> rest.scale]

\* item.value.transformation.as_renpy_coords(true) on a frame.
FrameToRenpy(item) ==
    LET t == AsRenpyCoords([translation |-> item.value.translation,
                            rotation |-> item.value.rotation,
                            scale |-> item.value.scale], TRUE)
    IN  [time |-> item.time,
         value |-> [translation |-> t.translation, rotation |-> t.rotation,
                    scale |-> t.scale, weights |-> item.value.weights]]

\* AnimationSet::from_node
FromNode(node) ==
    [i \in 1..Len(node) |->
        [target |-> node[i].target,
         interpolation |-> node[i].interpolation,
         frames |-> [k \in 1..Len(node[i].frames) |-> FrameToRenpy(node[i].frames[k])],
         duration |-> node[i].duration]]

\* Empty::create and Mesh::create, as far as the transform and the
\* animations go.
CreateObject(kind, id, static_transform, node_animations) ==
    [kind |-> kind, id |-> id,
     transform |-> AsRenpyCoords(static_transform, FALSE),
     animations |-> FromNode(node_animations)]

\* Mutant of Reduce: the angle is used as given.
KeepAngle(a) == a

\* old_x %= three_sixty on an angle of whole degrees: the remainder of f32
\* has the sign of the dividend.
Reduce(a) == IF a >= 0 THEN a % 360 ELSE -((-a) % 360)

\* euler_zyx_to_quaterions on angles <<x, y, z>> of whole degrees: the
\* quaternion <<xi, yj, zk, w>>.  The sines and cosines of the half angles
\* are exact (0, 1 or -1) when every reduced angle is a multiple of 180;
\* otherwise the quaternion is kept as a term over the reduced angles.
EulerZyxToQuaterions(angles) ==
    LET old == [i \in 1..3 |-> Reduce(angles[i])]
        quarter(a) == (a \div 180) % 4
        sin(a) == CASE quarter(a) = 1 -> R(1) [] quarter(a) = 3 -> R(-1) [] OTHER -> R(0)
        cos(a) == CASE quarter(a) = 0 -> R(1) [] quarter(a) = 2 -> R(-1) [] OTHER -> R(0)
        cx == cos(old[1])
        sx == sin(old[1])
        cy == cos(old[2])
        sy == sin(old[2])
        cz == cos(old[3])
        sz == sin(old[3])
        xi == XSub(XMul(XMul(sx, cy), cz), XMul(XMul(cx, sy), sz))
        yj == XAdd(XMul(XMul(cx, sy), cz), XMul(XMul(sx, cy), sz))
        zk == XSub(XMul(XMul(cx, cy), sz), XMul(XMul(sx, sy), cz))
        w == XAdd(XMul(XMul(cx, cy), cz), XMul(XMul(sx, sy), sz))
    IN  IF \A i \in 1..3 : old[i] % 180 = 0
        THEN Quat(<<xi, yj, zk, w>>)
        ELSE [tag |-> "euler_zyx", half_of |-> old]

\* ------------------------------------------------------------ the SceneTree
\* SceneTree::push_root: the tree after the call and the NodeID returned
\* (node ids count from 0, the i-th node of the model is node i - 1).
PushRoot(tree, value) ==
    LET new_index == Len(tree.nodes)
    IN  [tree |-> [nodes |-> Append(tree.nodes, [children |-> <<>>, value |-> value]),
                   roots |-> Append(tree.roots, new_index)],
         result |-> [tag |-> "Ok", id |-> new_index]]

\* SceneTree::push: the node is pushed, then the parent looked up in the
\* vector the node is already in.
Push(tree, root_node, value) ==
    LET new_index == Len(tree.nodes)
        nodes == Append(tree.nodes, [children |-> <<>>, value |-> value])
    IN  IF root_node < Len(nodes)
        THEN [tree |-> [nodes |-> [nodes EXCEPT ![root_node + 1].children =
                                                    Append(@, new_index)],
                        roots |-> tree.roots],
              result |-> [tag |-> "Ok", id |-> new_index]]
        ELSE [tree |-> [nodes |-> nodes, roots |-> tree.roots],
              result |-> [tag |-> "Err", id |-> 0]]

\* ------------------------------------------ the VertexAttributeIterator
\* Option<Item>: None and Some(item).
None == <<>>
Some(item) == <<item>>

\* VertexAttributeIterator::new with STRIDE stride.
NewVertexAttributeIterator(iter, stride) ==
    [iter |-> iter, next_stride |-> [i \in 1..stride |-> None]]

\* get_attributes: the loop writes the next items of iter over the first
\* places of next_stride, at most STRIDE of them, and the whole of
\* next_stride is returned.
GetAttributes(self) ==
    LET stride == Len(self.next_stride)
        drawn == IF Len(self.iter) < stride THEN Len(self.iter) ELSE stride
        next_stride == [i \in 1..stride |->
                           IF i <= drawn THEN Some(self.iter[i]) ELSE self.next_stride[i]]
    IN  [self |-> [iter |-> SubSeq(self.iter, drawn + 1, Len(self.iter)),
                   next_stride |-> next_stride],
         result |-> next_stride]

\* ------------------------------------------------- the exported functions
\* A null pointer, and a C string that is not UTF-8.
NullPtr == "<null>"
NotUtf8 == "<not utf-8>"

\* Paths of model files; the last one is of no file gltf_loader can load.
ModelPaths == {"a.glb", "b.glb", "c.glb", "missing.glb"}

\* hasher.finish() as u32 of a path: 32 bits of its DefaultHasher value, the
\* same for some pairs of paths (here for a.glb and c.glb).
PathHash(model_path) ==
    CASE model_path = "a.glb" -> 1
      [] model_path = "b.glb" -> 2
      [] model_path = "c.glb" -> 1
      [] OTHER -> 3

\* load_scene_list: the bytes of the scenes of the file, or an error.
LoadSceneList(path) ==
    IF path = "missing.glb" THEN [ok |-> FALSE, data |-> <<>>]
    ELSE [ok |-> TRUE, data |-> <<"scenes of", path>>]

\* GLTFResult::ok and GLTFResult::error; content is <<>> for a null pointer
\* and <<c>> for a pointer to c, error_description NullPtr or the C string.
GLTFResultOk(content) ==
    [result_type |-> "Ok", error_description |-> NullPtr, content |-> <<content>>]
GLTFResultError(result_type, description) ==
    [result_type |-> result_type, error_description |-> description, content |-> <<>>]

\* An array of paths as a callee sees it: a null pointer, or the entries.
NullArray == [null |-> TRUE, entries |-> <<>>]
Array(entries) == [null |-> FALSE, entries |-> entries]

\* The call did not return: the process ended in it.
NoResult == [result_type |-> "<none>", error_description |-> NullPtr, content |-> <<>>]

\* get_from_cache on the models table.
GetFromCache(models, model_path) ==
    IF PathHash(model_path) \in DOMAIN models
    THEN [ok |-> TRUE, data |-> models[PathHash(model_path)]]
    ELSE [ok |-> FALSE, data |-> <<>>]

\* The loop of load_all_from_cache from entry index on: the result, and
\* whether the database file was opened (and so created).
RECURSIVE LoadAllLoop(_, _, _, _)
LoadAllLoop(models, model_path, index, model_vec) ==
    IF index > Len(model_path)
    THEN [result |-> GLTFResultOk(model_vec), opened |-> FALSE]
    ELSE IF model_path[index] = NullPtr
    THEN LoadAllLoop(models, model_path, index + 1, model_vec)
    ELSE IF model_path[index] = NotUtf8
    THEN [result |-> GLTFResultError("InvalidPath", "invalid utf-8"), opened |-> FALSE]
    ELSE LET rv == GetFromCache(models, model_path[index])
         IN  IF ~rv.ok
             THEN [result |-> GLTFResultError("DatabaseExtractionFailure", "no row"),
                   opened |-> TRUE]
             ELSE [LoadAllLoop(models, model_path, index + 1, Append(model_vec, rv.data))
                      EXCEPT !.opened = TRUE]

\* The loop of save_all_to_cache from entry index on, inside the second
\* transaction: the error it returns with, "none" if it reaches the commit,
\* and the rows of the transaction.  fail_at is the entry whose REPLACE the
\* database refuses, 0 if it accepts them all.
RECURSIVE SaveLoop(_, _, _, _)
SaveLoop(rows, model_paths, index, fail_at) ==
    IF index > Len(model_paths) THEN [error |-> "none", rows |-> rows]
    ELSE IF model_paths[index] = NullPtr THEN [error |-> "NullPath", rows |-> rows]
    ELSE IF model_paths[index] = NotUtf8 THEN [error |-> "InvalidPath", rows |-> rows]
    ELSE LET hash == PathHash(model_paths[index])
             model == LoadSceneList(model_paths[index])
         IN  IF ~model.ok THEN [error |-> "BadFileProcessing", rows |-> rows]
             ELSE IF index = fail_at
             THEN [error |-> "DatabaseInsertionFailure", rows |-> rows]
             ELSE SaveLoop([k \in DOMAIN rows \cup {hash} |->
                               IF k = hash THEN model.data ELSE rows[k]],
                           model_paths, index + 1, fail_at)

\* ------------------------------------------------------------------ state
VARIABLES
    asset,              \* the clip: its channels and the rest pose of its nodes
    pc,                 \* "extract", "nodes", "merge", "done" or "panic"
    next_channel,       \* position of the loop over animation.channels()
    nodes_channels,     \* node id -> cursors, the nodes seen so far
    animations,         \* node id -> GLTFAnimation
    node_id,            \* the node being merged
    animation_channels, \* its cursors
    frames,             \* its frames so far
    fault,              \* the panic load ended in, "none" if none
    objects,            \* node id -> the object built from the node for Ren'Py
    euler_angles,       \* the argument of euler_zyx_to_quaterions
    quaternion,         \* what it returned
    doc_animations,     \* doc.animations(): the clips of the document
    next_clip,          \* position of the iterator the par_bridge workers share
    worker_out,         \* worker -> the results of the clips it mapped
    data_animations,    \* data.animations: node id -> tracks
    scene_tree,         \* a SceneTree: nodes and roots
    push_ret,           \* what the last push or push_root returned
    database,           \* the cache file: whether it exists and its models table
    ffi_result,         \* the last call of an exported function and its GLTFResult
    vertex_iter,        \* a VertexAttributeIterator: iter and next_stride
    attributes          \* the slices get_attributes returned, one per call

loader_vars == <<asset, pc, next_channel, nodes_channels, animations, node_id,
                 animation_channels, frames, fault, objects>>
euler_vars == <<euler_angles, quaternion>>
parallel_vars == <<doc_animations, next_clip, worker_out, data_animations>>
tree_vars == <<scene_tree, push_ret>>
cache_vars == <<database, ffi_result>>
vertex_vars == <<vertex_iter, attributes>>

\* The state outside GLTFAnimation::load and the objects built from it.
library_vars == <<euler_vars, parallel_vars, tree_vars, cache_vars, vertex_vars>>

vars == <<loader_vars, library_vars>>

\* Nothing returned yet.
NoReturn == [tag |-> "none"]

\* Each part of the library before it is used.
LoaderIdle ==
    /\ asset = [channels |-> <<>>, rest |-> <<>>]
    /\ pc = "extract"
    /\ next_channel = 1
    /\ nodes_channels = <<>>
    /\ animations = <<>>
    /\ node_id = 0
    /\ animation_channels = <<>>
    /\ frames = <<>>
    /\ fault = "none"
    /\ objects = <<>>
EulerIdle == euler_angles = <<0, 0, 0>> /\ quaternion = NoReturn
ParallelIdle ==
    /\ doc_animations = <<>>
    /\ next_clip = 1
    /\ worker_out = <<>>
    /\ data_animations = <<>>
TreeIdle ==
    /\ scene_tree = [nodes |-> <<>>, roots |-> <<>>]
    /\ push_ret = [fn |-> "none", root_node |-> 0, result |-> NoReturn]
CacheIdle ==
    /\ database = [exists |-> FALSE, models |-> <<>>]
    /\ ffi_result = [fn |-> "none", db_path |-> NullPtr, model_path |-> NullPtr,
                     model_paths |-> NullArray, count |-> 0, result |-> NoResult]
VertexIdle == vertex_iter = [iter |-> <<>>, next_stride |-> <<>>] /\ attributes = <<>>
LibraryIdle == EulerIdle /\ ParallelIdle /\ TreeIdle /\ CacheIdle /\ VertexIdle

\* One turn of the loop over animation.channels().
LoadChannel ==
    /\ pc = "extract"
    /\ next_channel <= Len(asset.channels)
    /\ LET ch == asset.channels[next_channel]
           cur == NewCursor(ch, asset.rest)
           entry == IF ch.node \in DOMAIN nodes_channels
                    THEN nodes_channels[ch.node] ELSE <<>>
       IN  IF cur.data.fault # "none"
           THEN /\ pc' = "panic"
                /\ fault' = cur.data.fault
                /\ UNCHANGED <<next_channel, nodes_channels>>
           ELSE /\ nodes_channels' =
                       [n \in DOMAIN nodes_channels \cup {ch.node} |->
                           IF n = ch.node THEN Append(entry, cur) ELSE nodes_channels[n]]
                /\ next_channel' = next_channel + 1
                /\ UNCHANGED <<pc, fault>>
    /\ UNCHANGED <<asset, animations, node_id, animation_channels, frames, objects>>
    /\ UNCHANGED library_vars

\* The loop over the channels is over.
ChannelsLoaded ==
    /\ pc = "extract"
    /\ next_channel > Len(asset.channels)
    /\ pc' = "nodes"
    /\ UNCHANGED <<asset, next_channel, nodes_channels, animations, node_id,
                   animation_channels, frames, fault, objects>>
    /\ UNCHANGED library_vars

\* for (node_id, animation_channels) in nodes_channels: the next node, in
\* the order of the hash map.
StartNode ==
    /\ pc = "nodes"
    /\ \E n \in DOMAIN nodes_channels \ DOMAIN animations :
          /\ node_id' = n
          /\ animation_channels' = nodes_channels[n]
          /\ animations' = [m \in DOMAIN animations \cup {n} |->
                               IF m = n THEN NewAnimation(n) ELSE animations[m]]
    /\ frames' = <<>>
    /\ pc' = "merge"
    /\ UNCHANGED <<asset, next_channel, nodes_channels, fault, objects>>
    /\ UNCHANGED library_vars

\* One turn of while let Some(min_iter) = min_value(..).
MergeStep ==
    /\ pc = "merge"
    /\ LET min_iter == MinValue(animation_channels)
       IN  /\ min_iter.some
           /\ IF min_iter.fault # "none"
              THEN /\ pc' = "panic"
                   /\ fault' = min_iter.fault
                   /\ UNCHANGED <<animations, animation_channels, frames>>
              ELSE LET min_val == min_iter.time
                       seed == SeedValue(frames, animation_channels[min_iter.idx])
                       r == ForEachChannel(animation_channels, 1,
                                [chans |-> <<>>, value |-> seed,
                                 interpolation |-> animations[node_id].interpolation,
                                 fault |-> "none"],
                                min_val)
                   IN  IF r.fault # "none"
                       THEN /\ pc' = "panic"
                            /\ fault' = r.fault
                            /\ UNCHANGED <<animations, animation_channels, frames>>
                       ELSE /\ animation_channels' = r.chans
                            /\ frames' = Append(frames, [time |-> min_val, value |-> r.value])
                            /\ animations' = [animations EXCEPT
                                                ![node_id].interpolation = r.interpolation]
                            /\ UNCHANGED <<pc, fault>>
    /\ UNCHANGED <<asset, next_channel, nodes_channels, node_id, objects>>
    /\ UNCHANGED library_vars

\* min_value returned None: the node's track is complete.
FinishNode ==
    /\ pc = "merge"
    /\ ~MinValue(animation_channels).some
    /\ animations' = [animations EXCEPT ![node_id].duration = Duration(frames),
                                        ![node_id].frames = frames]
    /\ pc' = "nodes"
    /\ UNCHANGED <<asset, next_channel, nodes_channels, node_id, animation_channels,
                   frames, fault, objects>>
    /\ UNCHANGED library_vars

\* animations.drain().collect_vec()
Return ==
    /\ pc = "nodes"
    /\ DOMAIN nodes_channels \ DOMAIN animations = {}
    /\ pc' = "done"
    /\ UNCHANGED <<asset, next_channel, nodes_channels, animations, node_id,
                   animation_channels, frames, fault, objects>>
    /\ UNCHANGED library_vars

\* The tracks the loader hands to the object of node n.
AnimationsOf(n) == IF n \in DOMAIN animations THEN <<animations[n]>> ELSE <<>>

\* load_scene_list: the next object of the scene is an Empty.
CreateEmpty ==
    /\ pc = "done"
    /\ \E n \in DOMAIN asset.rest \ DOMAIN objects :
          objects' = [m \in DOMAIN objects \cup {n} |->
                         IF m = n
                         THEN CreateObject("Empty", n, ConvertFromGltf(asset.rest[n]),
                                           AnimationsOf(n))
                         ELSE objects[m]]
    /\ UNCHANGED <<asset, pc, next_channel, nodes_channels, animations, node_id,
                   animation_channels, frames, fault>>
    /\ UNCHANGED library_vars

\* load_scene_list: the next object of the scene is a Mesh.
CreateMesh ==
    /\ pc = "done"
    /\ \E n \in DOMAIN asset.rest \ DOMAIN objects :
          objects' = [m \in DOMAIN objects \cup {n} |->
                         IF m = n
                         THEN CreateObject("Mesh", n, ConvertFromGltf(asset.rest[n]),
                                           AnimationsOf(n))
                         ELSE objects[m]]
    /\ UNCHANGED <<asset, pc, next_channel, nodes_channels, animations, node_id,
                   animation_channels, frames, fault>>
    /\ UNCHANGED library_vars

\* A call of euler_zyx_to_quaterions.
ConvertEuler ==
    /\ quaternion = NoReturn
    /\ quaternion' = EulerZyxToQuaterions(euler_angles)
    /\ UNCHANGED <<euler_angles, loader_vars, parallel_vars, tree_vars, cache_vars,
                   vertex_vars>>

\* par_bridge().map(..): worker w takes the next clip off the iterator the
\* workers share and loads it.
MapClip ==
    /\ DOMAIN worker_out # {}
    /\ next_clip <= Len(doc_animations)
    /\ \E w \in DOMAIN worker_out :
          worker_out' = [worker_out EXCEPT
                            ![w] = Append(@, LoadedTracks(doc_animations[next_clip]))]
    /\ next_clip' = next_clip + 1
    /\ UNCHANGED <<doc_animations, data_animations, loader_vars, euler_vars, tree_vars,
                   cache_vars, vertex_vars>>

\* collect() chains what the workers hold, in the order of the workers, and
\* the loop over animation_result fills data.animations.
CollectClips ==
    /\ DOMAIN worker_out # {}
    /\ next_clip > Len(doc_animations)
    /\ LET RECURSIVE Chain(_)
           Chain(w) == IF w = 0 THEN <<>> ELSE Chain(w - 1) \o worker_out[w]
       IN  data_animations' = TracksByNode(Chain(Cardinality(DOMAIN worker_out)))
    /\ worker_out' = <<>>
    /\ UNCHANGED <<doc_animations, next_clip, loader_vars, euler_vars, tree_vars,
                   cache_vars, vertex_vars>>

NextParallel == MapClip \/ CollectClips

\* Largest number of nodes of a SceneTree.
MaxNodes == 4

\* A call of SceneTree::push_root with a Mesh or an Empty.
CallPushRoot ==
    /\ Len(scene_tree.nodes) < MaxNodes
    /\ \E value \in {"Mesh", "Empty"} :
          LET r == PushRoot(scene_tree, value)
          IN  /\ scene_tree' = r.tree
              /\ push_ret' = [fn |-> "push_root", root_node |-> 0, result |-> r.result]
    /\ UNCHANGED <<loader_vars, euler_vars, parallel_vars, cache_vars, vertex_vars>>

\* A call of SceneTree::push with any parent id, of a node or of none.
CallPush ==
    /\ Len(scene_tree.nodes) < MaxNodes
    /\ \E root_node \in 0..MaxNodes, value \in {"Mesh", "Empty"} :
          LET r == Push(scene_tree, root_node, value)
          IN  /\ scene_tree' = r.tree
              /\ push_ret' = [fn |-> "push", root_node |-> root_node, result |-> r.result]
    /\ UNCHANGED <<loader_vars, euler_vars, parallel_vars, cache_vars, vertex_vars>>

NextTree == CallPushRoot \/ CallPush

\* Largest number of entries of an array of model paths.
MaxPaths == 2

\* What a caller can pass for a path, and for an array of paths.
PathArgs == {NullPtr, NotUtf8} \cup ModelPaths
DbPathArgs == {NullPtr, NotUtf8, "cache.db"}
PathArrays == UNION {[1..k -> PathArgs] : k \in 0..MaxPaths}

\* A call of an exported function with its arguments, and what it returned.
Returned(fn, db_path, model_path, model_paths, count, result) ==
    [fn |-> fn, db_path |-> db_path, model_path |-> model_path,
     model_paths |-> model_paths, count |-> count, result |-> result]

\* load_file
LoadFile ==
    /\ \E file_path \in PathArgs :
          ffi_result' = Returned("load_file", NullPtr, file_path, NullArray, 0,
              IF file_path = NullPtr THEN GLTFResultError("NullPath", "null pointer")
              ELSE IF file_path = NotUtf8 THEN GLTFResultError("InvalidPath", "invalid utf-8")
              ELSE IF ~LoadSceneList(file_path).ok
              THEN GLTFResultError("BadFileProcessing", "load failed")
              ELSE GLTFResultOk(LoadSceneList(file_path).data))
    /\ UNCHANGED <<database, loader_vars, euler_vars, parallel_vars, tree_vars, vertex_vars>>

\* load_from_cache
LoadFromCache ==
    /\ \E db_path \in DbPathArgs, model_path \in PathArgs :
          ffi_result' = Returned("load_from_cache", db_path, model_path, NullArray, 0,
              IF db_path = NullPtr THEN GLTFResultError("NullPath", "null database path")
              ELSE IF model_path = NullPtr THEN GLTFResultError("NullPath", "null model path")
              ELSE IF model_path = NotUtf8 THEN GLTFResultError("InvalidPath", "invalid utf-8")
              ELSE IF db_path = NotUtf8 THEN GLTFResultError("InvalidPath", "invalid utf-8")
              ELSE IF ~database.exists THEN GLTFResultError("InvalidPath", "no database")
              ELSE IF ~GetFromCache(database.models, model_path).ok
              THEN GLTFResultError("DatabaseExtractionFailure", "no row")
              ELSE GLTFResultOk(GetFromCache(database.models, model_path).data))
    /\ UNCHANGED <<database, loader_vars, euler_vars, parallel_vars, tree_vars, vertex_vars>>

\* load_all_from_cache with model_count the length of the array.
LoadAllFromCache ==
    /\ \E db_path \in DbPathArgs,
          model_path \in {Array(a) : a \in PathArrays} \cup {NullArray} :
          LET refused == db_path \in {NullPtr, NotUtf8} \/ model_path.null
              r == LoadAllLoop(database.models, model_path.entries, 1, <<>>)
          IN  /\ ffi_result' = Returned("load_all_from_cache", db_path, NullPtr,
                      model_path, Len(model_path.entries),
                      IF db_path = NullPtr
                      THEN GLTFResultError("NullPath", "null database path")
                      ELSE IF model_path.null
                      THEN GLTFResultError("NullPath", "null model paths")
                      ELSE IF db_path = NotUtf8
                      THEN GLTFResultError("InvalidPath", "invalid utf-8")
                      ELSE r.result)
              /\ database' = IF ~refused /\ r.opened
                             THEN [database EXCEPT !.exists = TRUE] ELSE database
    /\ UNCHANGED <<loader_vars, euler_vars, parallel_vars, tree_vars, vertex_vars>>

\* save_all_to_cache with model_path_length the length of the array.  The
\* pointer to the array is read without a test for null: with a null array and
\* a length above 0 the call reads what is at address 0 and either ends the
\* process or goes on with whatever entries it finds there.
SaveAllToCache ==
    /\ \E db_path \in DbPathArgs,
          model_paths \in {Array(a) : a \in PathArrays} \cup {NullArray},
          found \in PathArrays, crash \in BOOLEAN, fail_at \in 0..MaxPaths :
          LET entries == IF model_paths.null THEN found ELSE model_paths.entries
              r == SaveLoop(database.models, entries, 1, fail_at)
          IN  /\ ~model_paths.null => (found = <<>> /\ ~crash)
              /\ found = <<>> => ~crash
              /\ fail_at <= Len(entries)
              /\ ffi_result' = Returned("save_all_to_cache", db_path, NullPtr,
                      model_paths, Len(entries),
                      IF db_path = NullPtr THEN GLTFResultError("NullPath", "null pointer")
                      ELSE IF db_path = NotUtf8
                      THEN GLTFResultError("InvalidPath", "invalid utf-8")
                      ELSE IF crash THEN NoResult
                      ELSE IF r.error # "none" THEN GLTFResultError(r.error, "failed")
                      ELSE GLTFResultOk(TRUE))
              /\ database' =
                    IF db_path \in {NullPtr, NotUtf8} THEN database
                    ELSE [exists |-> TRUE,
                          models |-> IF ~crash /\ r.error = "none" THEN r.rows
                                     ELSE database.models]
    /\ UNCHANGED <<loader_vars, euler_vars, parallel_vars, tree_vars, vertex_vars>>

NextCache == LoadFile \/ LoadFromCache \/ LoadAllFromCache \/ SaveAllToCache

\* Largest number of vertexes of a mesh: to_flatbuffer calls get_attributes
\* once for each.
MaxVertexes == 5

\* One turn of the loop over the vertexes in Mesh::to_flatbuffer.
CallGetAttributes ==
    /\ vertex_iter.next_stride # <<>>
    /\ Len(attributes) < MaxVertexes
    /\ vertex_iter' = GetAttributes(vertex_iter).self
    /\ attributes' = Append(attributes, GetAttributes(vertex_iter).result)
    /\ UNCHANGED <<loader_vars, euler_vars, parallel_vars, tree_vars, cache_vars>>

Next == LoadChannel \/ ChannelsLoaded \/ StartNode \/ MergeStep \/ FinishNode \/ Return

\* A clip loaded and its nodes built into the objects of the Ren'Py scene.
NextExport == Next \/ CreateEmpty \/ CreateMesh

\* ------------------------------------------------------------- the inputs
\* Node ids of the clip's targets.
Nodes == {0}

\* A clip has one or two channels (all on the same node when Nodes has one
\* element, so that every pair of kinds, orders and time grids meets).
ChannelCounts == {1, 2}

\* Rest poses of a node: the identity without morph weights, and a posed
\* node of a mesh with MorphTargets weights, different from every keyframe.
IdentityPose ==
    [translation |-> <<R(0), R(0), R(0)>>,
     rotation |-> <<R(0), R(0), R(0), R(1)>>,
     scale |-> <<R(1), R(1), R(1)>>,
     weights |-> <<>>]
PosedPose ==
    [translation |-> Vec3(7),
     rotation |-> Vec4(7),
     scale |-> Vec3(9),
     weights |-> [i \in 1..MorphTargets |-> R(7)]]
RestPoses == {IdentityPose, PosedPose}

\* Keyframe times of n keyframes, as the glTF format asks for them
\* (strictly increasing) and as an asset may hold them (non-decreasing).
IncreasingTimes(n) ==
    {s \in [1..n -> 0..MaxTime] : \A i \in 1..(n - 1) : s[i] < s[i + 1]}
OrderedTimes(n) ==
    {s \in [1..n -> 0..MaxTime] : \A i \in 1..(n - 1) : s[i] <= s[i + 1]}

Variants == {"Translations", "Rotations", "Scales", "MorphTargetWeights"}

\* The output accessor of a channel: count keyframes of the variant, the
\* i-th raw value built from i, so that all keyframes of a channel differ.
Outputs(variant, count) ==
    [variant |-> variant,
     values |->
        CASE variant \in {"Translations", "Scales"} -> [i \in 1..count |-> Vec3(i)]
          [] variant = "Rotations" -> [i \in 1..count |-> Vec4(i)]
          [] variant = "MorphTargetWeights" ->
                [i \in 1..(count * MorphTargets) |-> R(i)]]

Unreadable == [variant |-> "Unreadable", values |-> <<>>]

Channel(node, interpolation, inputs, outputs) ==
    [node |-> node, interpolation |-> interpolation, inputs |-> inputs,
     outputs |-> outputs]

\* Channels of a valid asset: one value per keyframe, increasing times.
ValidChannels ==
    {Channel(n, ip, t, Outputs(v, Len(t))) :
        n \in Nodes, ip \in GltfInterpolations,
        t \in UNION {IncreasingTimes(k) : k \in 1..MaxLen},
        v \in Variants}

\* Channels of any asset the gltf crate imports: times in order but possibly
\* repeated or absent, outputs possibly unreadable or one keyframe short.
AnyChannels ==
    UNION {{Channel(n, ip, t, o) :
                n \in Nodes, ip \in GltfInterpolations,
                o \in {Unreadable} \cup
                      {Outputs(v, k) : v \in Variants,
                                       k \in {Len(t), Len(t) - 1} \cap Nat}} :
           t \in UNION {OrderedTimes(k) : k \in 0..MaxLen}}

Clips(channels) == UNION {[1..k -> channels] : k \in ChannelCounts}

Start(clips, poses) ==
    /\ asset \in [channels : clips, rest : [Nodes -> poses]]
    /\ pc = "extract"
    /\ next_channel = 1
    /\ nodes_channels = <<>>
    /\ animations = <<>>
    /\ node_id = 0
    /\ animation_channels = <<>>
    /\ frames = <<>>
    /\ fault = "none"
    /\ objects = <<>>
    /\ LibraryIdle

\* Clips of valid assets.
Init == Start(Clips(ValidChannels), RestPoses)

Spec == Init /\ [][Next]_vars

\* Clips of any asset.
InitAny == Start(Clips(AnyChannels), {PosedPose})

SpecAny == InitAny /\ [][Next]_vars

\* Scenario 4 of the specification: one node, a Translation channel at the
\* times 0.0, 1.0 and a Rotation channel at the times 0.0, 0.5, 1.0 (0, 2 and
\* 0, 1, 2 half seconds), in either order, with every supported
\* interpolation of the translation and any keyframe values.
ScenarioScalars == {1, 2, 4}
ScenarioTranslations ==
    {Channel(0, ip, <<0, 2>>,
             [variant |-> "Translations", values |-> <<Vec3(a), Vec3(b)>>]) :
        ip \in {"Linear", "Step"}, a \in ScenarioScalars, b \in ScenarioScalars}
ScenarioRotations ==
    {Channel(0, ip, <<0, 1, 2>>,
             [variant |-> "Rotations", values |-> <<Vec4(x), Vec4(y), Vec4(z)>>]) :
        ip \in GltfInterpolations, x \in {1, 2}, y \in {1, 2}, z \in {1, 2}}
Scenario4Clips ==
    {<<t, r>> : t \in ScenarioTranslations, r \in ScenarioRotations} \cup
    {<<r, t>> : t \in ScenarioTranslations, r \in ScenarioRotations}

InitScenario4 == Start(Scenario4Clips, RestPoses)

SpecScenario4 == InitScenario4 /\ [][Next]_vars

\* Clips over two nodes: one to three channels, each on either node, with
\* keyframes at 0, 1, .. half seconds and a supported interpolation.
TargetNodes == {0, 1}
MultiNodeCounts == {1, 2, 3}
MultiNodeChannels ==
    {Channel(n, ip, [i \in 1..k |-> i - 1], Outputs(v, k)) :
        n \in TargetNodes, ip \in {"Linear", "Step"}, k \in 1..MaxLen,
        v \in {"Translations", "Rotations"}}

InitNodes ==
    /\ asset \in [channels : UNION {[1..k -> MultiNodeChannels] : k \in MultiNodeCounts},
                  rest : [TargetNodes -> {PosedPose}]]
    /\ pc = "extract"
    /\ next_channel = 1
    /\ nodes_channels = <<>>
    /\ animations = <<>>
    /\ node_id = 0
    /\ animation_channels = <<>>
    /\ frames = <<>>
    /\ fault = "none"
    /\ objects = <<>>
    /\ LibraryIdle

SpecNodes == InitNodes /\ [][Next]_vars

SpecExport == InitNodes /\ [][NextExport]_vars

\* Unit quaternions <<x, y, z, w>> with components among 0, +-1/2 and +-1:
\* the rotations by multiples of 90 degrees about an axis and of 120
\* degrees about a diagonal.
UnitQuaternions ==
    {v \in [1..4 -> {R(0), R(1), R(-1), Fin(1, 2), Fin(-1, 2)}] : SumSq(v) = R(1)}

\* A node at the origin rotated by each of them.
RotatedPoses == {[IdentityPose EXCEPT !.rotation = v] : v \in UnitQuaternions}

\* Two nodes, each rotated by one of them, and a single Linear Translation
\* channel on either node.
TranslationClips ==
    {<<ch>> : ch \in {c \in MultiNodeChannels : /\ c.interpolation = "Linear"
                                                 /\ c.outputs.variant = "Translations"}}

InitRotations ==
    /\ asset \in [channels : TranslationClips, rest : [TargetNodes -> RotatedPoses]]
    /\ pc = "extract"
    /\ next_channel = 1
    /\ nodes_channels = <<>>
    /\ animations = <<>>
    /\ node_id = 0
    /\ animation_channels = <<>>
    /\ frames = <<>>
    /\ fault = "none"
    /\ objects = <<>>
    /\ LibraryIdle

SpecRotations == InitRotations /\ [][NextExport]_vars

\* Clips of one MorphTargetWeights channel on node 0 whose buffer holds
\* w floats for each of its keyframes, the floats 1, 2, .. in order.
WeightOutputs(w, count) ==
    [variant |-> "MorphTargetWeights", values |-> [i \in 1..(count * w) |-> R(i)]]

WeightChannels ==
    {Channel(0, ip, t, WeightOutputs(w, Len(t))) :
        ip \in {"Linear", "Step"},
        t \in UNION {IncreasingTimes(k) : k \in 1..MaxLen},
        w \in 1..MaxWeights}

InitWeights == Start({<<ch>> : ch \in WeightChannels}, {PosedPose})

SpecWeights == InitWeights /\ [][Next]_vars

\* Rotations about the y axis <<0, y, 0, w>> whose components are floats of
\* [1/2, 1) and whose squared magnitude is within 1/8 of 1: pitches of
\* about 90 degrees as an exporter rounds them.
NearUnitPitches ==
    LET grid == {Fin(m, 2 ^ SignificandBits) :
                     m \in (2 ^ (SignificandBits - 1))..(2 ^ SignificandBits - 1)}
    IN  {v \in {<<R(0), y, R(0), w>> : y \in grid, w \in grid} :
            /\ XLeq(Fin(7, 8), SumSq(v))
            /\ XLeq(SumSq(v), Fin(9, 8))}

\* One node rotated by one of them, animated by a Linear Translation
\* channel.
InitPitches ==
    Start({<<ch>> : ch \in {c \in ValidChannels : /\ c.interpolation = "Linear"
                                                 /\ c.outputs.variant = "Translations"}},
          {[IdentityPose EXCEPT !.rotation = v] : v \in NearUnitPitches})

SpecPitches == InitPitches /\ [][NextExport]_vars

\* Angles in degrees: multiples of 180 up to a turn and a half either way,
\* and 20 degrees a turn up or down.
EulerDegrees == {-540, -360, -340, -180, -20, 0, 20, 180, 340, 360, 380, 540}

InitEuler ==
    /\ euler_angles \in [1..3 -> EulerDegrees]
    /\ quaternion = NoReturn
    /\ LoaderIdle /\ ParallelIdle /\ TreeIdle /\ CacheIdle /\ VertexIdle

SpecEuler == InitEuler /\ [][ConvertEuler]_vars

\* Documents of one to MaxClips clips, each a Linear channel on either node
\* or a Translation channel on each node, loaded by two workers.
MaxClips == 3
Workers == 2
ClipChannels ==
    {<<ch>> : ch \in {c \in MultiNodeChannels : c.interpolation = "Linear"}} \cup
    {<<Channel(0, "Step", <<0>>, Outputs("Translations", 1)),
       Channel(1, "Step", <<0>>, Outputs("Translations", 1))>>}

InitParallel ==
    /\ doc_animations \in
          UNION {[1..k -> [channels : ClipChannels, rest : [TargetNodes -> {PosedPose}]]] :
                    k \in 1..MaxClips}
    /\ next_clip = 1
    /\ worker_out = [w \in 1..Workers |-> <<>>]
    /\ data_animations = <<>>
    /\ LoaderIdle /\ EulerIdle /\ TreeIdle /\ CacheIdle /\ VertexIdle

SpecParallel == InitParallel /\ [][NextParallel]_vars

\* SceneTree::new()
InitTree ==
    /\ TreeIdle
    /\ LoaderIdle /\ EulerIdle /\ ParallelIdle /\ CacheIdle /\ VertexIdle

SpecTree == InitTree /\ [][NextTree]_vars

\* No cache file yet and no call made.
InitCache ==
    /\ CacheIdle
    /\ LoaderIdle /\ EulerIdle /\ ParallelIdle /\ TreeIdle /\ VertexIdle

SpecCache == InitCache /\ [][NextCache]_vars

\* Largest number of items of the iterator under a VertexAttributeIterator.
MaxItems == 6

\* A new VertexAttributeIterator, with a STRIDE that Mesh::to_flatbuffer
\* uses, over an iterator of 0..MaxItems items; an item is written as its
\* place in that iterator.
InitVertex ==
    /\ \E n \in 0..MaxItems, stride \in {2, 3, 4} :
          vertex_iter = NewVertexAttributeIterator([k \in 1..n |-> k], stride)
    /\ attributes = <<>>
    /\ LoaderIdle /\ EulerIdle /\ ParallelIdle /\ TreeIdle /\ CacheIdle

SpecVertex == InitVertex /\ [][CallGetAttributes]_vars

\* ---------------------------------------------------------------- claims
Range(s) == {s[i] : i \in 1..Len(s)}

\* The keyframe times of all channels of node n.
KeyTimes(n) ==
    UNION {Range(asset.channels[i].inputs) :
              i \in {j \in 1..Len(asset.channels) : asset.channels[j].node = n}}

FrameTimes(f) == {f[i].time : i \in 1..Len(f)}

\* The kinds the cursors of node n animate.
AnimatedKinds(n) == {nodes_channels[n][i].data.kind : i \in 1..Len(nodes_channels[n])}

\* The cursor is the only one of its node that animates its property.
SoleOfKind(n, i) ==
    \A j \in 1..Len(nodes_channels[n]) :
        nodes_channels[n][j].data.kind = nodes_channels[n][i].data.kind => j = i

\* Index of the latest keyframe of times that is not after t, 0 if none.
LatestKey(times, t) ==
    IF \E i \in 1..Len(times) : times[i] <= t
    THEN CHOOSE i \in 1..Len(times) :
            times[i] <= t /\ \A j \in 1..Len(times) : times[j] <= t => j <= i
    ELSE 0

\* C1: when load returns, the frame times of every node's track are exactly
\* the union of the keyframe times of the node's channels, one frame per
\* distinct time.
C1_FrameTimesAreTheUnion ==
    pc = "done" =>
        \A n \in DOMAIN animations :
            /\ FrameTimes(animations[n].frames) = KeyTimes(n)
            /\ Len(animations[n].frames) = Cardinality(KeyTimes(n))

\* C2: when load returns for channels with ordered (non-decreasing) times,
\* the times of consecutive frames of every track strictly increase.
C2_FrameTimesStrictlyIncrease ==
    pc = "done" =>
        \A n \in DOMAIN animations :
            \A i \in 1..(Len(animations[n].frames) - 1) :
                animations[n].frames[i].time < animations[n].frames[i + 1].time

\* C3: for a Step channel (the only one animating its property), every frame
\* whose time is none of the channel's keyframe times and not before its
\* first keyframe holds the raw value of the channel's latest keyframe that
\* is not after the frame.
C3_StepHoldsLatestKeyframe ==
    pc = "done" =>
        \A n \in DOMAIN animations :
            \A i \in 1..Len(nodes_channels[n]) :
                LET c == nodes_channels[n][i]
                    f == animations[n].frames
                IN  (c.interpolation_type = "Step" /\ SoleOfKind(n, i)) =>
                        \A k \in 1..Len(f) :
                            LET j == LatestKey(c.data.times, f[k].time)
                            IN  (f[k].time \notin Range(c.data.times) /\ j > 0) =>
                                    GetProp(f[k].value, c.data.kind) =
                                        Into(c.data.kind, c.data.items[j])

\* The Translation channel of the clip of scenario 4.
ScenarioTranslation ==
    asset.channels[CHOOSE i \in 1..Len(asset.channels) :
                       asset.channels[i].outputs.variant = "Translations"]
ScenarioRotation ==
    asset.channels[CHOOSE i \in 1..Len(asset.channels) :
                       asset.channels[i].outputs.variant = "Rotations"]

\* C4: in scenario 4 with a Linear translation, every component of the
\* translation of the frame at t = 0.5 lies between the components of the
\* translation channel's keyframes at t = 0.0 and t = 1.0.
C4_Scenario4TranslationIsBetween ==
    (pc = "done" /\ ScenarioTranslation.interpolation = "Linear") =>
        LET f == animations[0].frames
            t == ScenarioTranslation.outputs.values
        IN  /\ Len(f) >= 2
            /\ f[2].time = 1
            /\ \A x \in 1..3 : XBetween(f[2].value.translation[x], t[1][x], t[2][x])

\* C5: in scenario 4, load returns (it does not fault) exactly 3 frames at
\* the times 0.0, 0.5, 1.0 in that order, each with a translation (a
\* 3-vector) and a rotation (the rotation channel's keyframe at that time).
C5_Scenario4Frames ==
    /\ pc # "panic"
    /\ pc = "done" =>
        LET f == animations[0].frames
        IN  /\ DOMAIN animations = {0}
            /\ Len(f) = 3
            /\ <<f[1].time, f[2].time, f[3].time>> = <<0, 1, 2>>
            /\ \A k \in 1..3 :
                /\ Len(f[k].value.translation) = 3
                /\ f[k].value.rotation = Quat(ScenarioRotation.outputs.values[k])
            /\ f[1].value.translation = ScenarioTranslation.outputs.values[1]

\* A returned track of scenario 4 whose Linear translation changed between
\* the frames at t = 0.0 and t = 0.5.
C5_Witness ==
    /\ pc = "done"
    /\ Len(animations[0].frames) = 3
    /\ ScenarioTranslation.interpolation = "Linear"
    /\ animations[0].frames[2].value.translation # animations[0].frames[1].value.translation

\* C6: a clip with a channel declared CubicSpline never ends in a returned
\* track of frames.
HasCubic == \E i \in 1..Len(asset.channels) : asset.channels[i].interpolation = "CubicSpline"
C6_CubicNeverYieldsTrack == HasCubic => pc # "done"

\* C7: load never faults, whatever the channels.
C7_LoadNeverFaults == pc # "panic"

\* A channel as a valid asset has it, with a supported interpolation.
Sound(ch) == ch \in ValidChannels /\ ch.interpolation # "CubicSpline"

\* C8: with one channel whose outputs cannot be read and otherwise sound
\* channels, load does not fault, and once it has returned the clip's
\* tracks hold the frames of the sound channels.
C8_UnreadableChannelIsSkipped ==
    (/\ \E i \in 1..Len(asset.channels) : asset.channels[i].outputs.variant = "Unreadable"
     /\ \A i \in 1..Len(asset.channels) :
            asset.channels[i].outputs.variant = "Unreadable" \/ Sound(asset.channels[i]))
    => pc # "panic"

\* Every field of a frame value is there.
Complete(v) == DOMAIN v = {"translation", "rotation", "scale", "weights"}

\* The frames of node n hold all four fields, and the rest-pose default in
\* every property none of the node's channels animates.
DefaultsKept(n, f) ==
    \A k \in 1..Len(f) :
        /\ Complete(f[k].value)
        /\ \A kind \in Kinds \ AnimatedKinds(n) :
              GetProp(f[k].value, kind) =
                  GetProp(FromNodeDefaults(asset.rest[n]), kind)

FramesKeepDefaults ==
    /\ pc = "merge" => DefaultsKept(node_id, frames)
    /\ \A n \in DOMAIN animations : DefaultsKept(n, animations[n].frames)

\* A turn of the merge loop appended a frame.
FrameAppended == pc = "merge" /\ pc' = "merge" /\ Len(frames') = Len(frames) + 1

\* The property of cursor i is the same in the new frame as in the one before.
Carried(i) ==
    GetProp(frames'[Len(frames')].value, animation_channels[i].data.kind) =
        GetProp(frames[Len(frames)].value, animation_channels[i].data.kind)

\* C9 as claimed: every frame carries all four values, an unanimated
\* property holds the rest-pose default in every frame, and the property of
\* a Finished cursor has in every later frame the value of the frame before.
C9_FinishedCursorKeepsValue ==
    /\ []FramesKeepDefaults
    /\ [][FrameAppended =>
            \A i \in 1..Len(animation_channels) :
                animation_channels[i].is_finished => Carried(i)]_vars

\* No unfinished cursor of the node animates the property of cursor i.
KindFinished(i) ==
    \A j \in 1..Len(animation_channels) :
        animation_channels[j].data.kind = animation_channels[i].data.kind
            => animation_channels[j].is_finished

\* C9 as amended: the property keeps the value of the frame before once
\* every cursor of the node that animates it is Finished.
C9_FinishedPropertyKeepsValue ==
    /\ []FramesKeepDefaults
    /\ [][FrameAppended =>
            \A i \in 1..Len(animation_channels) : KindFinished(i) => Carried(i)]_vars

\* A returned track whose frame after a channel finished carries that
\* channel's last value on, next to a rest-pose default nothing animates.
C9_Witness ==
    /\ pc = "done"
    /\ asset.rest[0] = PosedPose
    /\ \E i \in 1..Len(nodes_channels[0]) :
          LET c == nodes_channels[0][i]
              f == animations[0].frames
          IN  /\ c.data.kind = "Translation"
              /\ Len(c.data.times) = 1
              /\ Len(f) = 2
              /\ AnimatedKinds(0) = {"Translation", "Rotation"}
              /\ f[2].value.translation = f[1].value.translation
              /\ f[2].value.translation # PosedPose.translation
              /\ f[2].value.scale = PosedPose.scale

\* C10: the duration of every track is the time of its last frame, and 0
\* when its frame list is empty.
C10_DurationIsLastFrameTime ==
    \A n \in DOMAIN animations :
        LET a == animations[n]
        IN  IF Len(a.frames) = 0 THEN a.duration = 0
            ELSE a.duration = a.frames[Len(a.frames)].time

\* A returned track of several frames that ends after time 0.
C10_Witness ==
    /\ pc = "done"
    /\ \E n \in DOMAIN animations :
          /\ Len(animations[n].frames) >= 2
          /\ animations[n].duration > animations[n].frames[1].time

\* The orders a list of n channels can come in.
Orders(n) == {p \in [1..n -> 1..n] : \A i, j \in 1..n : p[i] = p[j] => i = j}

Reordered(s, p) == [i \in 1..Len(s) |-> s[p[i]]]

\* No two cursors of node n animate the same property.
DistinctKinds(n) == \A i \in 1..Len(nodes_channels[n]) : SoleOfKind(n, i)

\* C11: for a node whose channels animate distinct properties, the merged
\* frames (their times and all property values) and the recorded
\* interpolation targets are those of the merge of every other order of the
\* node's channel list, which also decides the cursor selected first among
\* equal smallest next times; a merge one order faults in faults in every
\* order.
C11_MergeIgnoresChannelOrder ==
    /\ pc = "done" =>
          \A n \in DOMAIN animations :
              DistinctKinds(n) =>
                  \A p \in Orders(Len(nodes_channels[n])) :
                      LET m == MergeLoop(Reordered(nodes_channels[n], p), <<>>,
                                         DefaultTargets)
                      IN  /\ m.fault = "none"
                          /\ m.frames = animations[n].frames
                          /\ m.interpolation = animations[n].interpolation
    /\ (pc = "panic" /\ fault \in {"todo", "unwrap"} /\ DistinctKinds(node_id)) =>
          \A p \in Orders(Len(nodes_channels[node_id])) :
              MergeLoop(Reordered(nodes_channels[node_id], p), <<>>,
                        DefaultTargets).fault # "none"

\* A returned track of two channels of distinct properties whose first
\* keyframes are at the same time and whose later keyframes are not.
C11_Witness ==
    /\ pc = "done"
    /\ Len(nodes_channels[0]) = 2
    /\ DistinctKinds(0)
    /\ nodes_channels[0][1].data.times[1] = nodes_channels[0][2].data.times[1]
    /\ Len(nodes_channels[0][1].data.times) = 2
    /\ Len(nodes_channels[0][2].data.times) = 2
    /\ nodes_channels[0][1].data.times[2] > nodes_channels[0][2].data.times[2]
    /\ Len(animations[0].frames) = 2

\* The channels the loop over animation.channels() has visited.
Visited == SubSeq(asset.channels, 1, next_channel - 1)

\* The visited channels that target node n, in the order of the clip.
ChannelsOf(n) == SelectSeq(Visited, LAMBDA ch : ch.node = n)

\* C12: every channel visited is in the cursor list of exactly one node,
\* the node it targets (each list holds the cursors of the node's channels
\* in clip order and nothing else); load returns one track per targeted
\* node, and the target of a node's track is the node's id.
C12_ChannelsGroupedByTarget ==
    /\ DOMAIN nodes_channels = {Visited[i].node : i \in 1..Len(Visited)}
    /\ \A n \in DOMAIN nodes_channels :
          nodes_channels[n] =
              [i \in 1..Len(ChannelsOf(n)) |-> NewCursor(ChannelsOf(n)[i], asset.rest)]
    /\ \A n \in DOMAIN animations : animations[n].target = n
    /\ pc = "done" =>
          DOMAIN animations = {asset.channels[i].node : i \in 1..Len(asset.channels)}

\* A returned clip of three channels, the first and the last on node 0 and
\* the one between them on node 1, with a track for each node.
C12_Witness ==
    /\ pc = "done"
    /\ Len(asset.channels) = 3
    /\ <<asset.channels[1].node, asset.channels[2].node, asset.channels[3].node>> = <<0, 1, 0>>
    /\ Len(nodes_channels[0]) = 2
    /\ Len(nodes_channels[1]) = 1
    /\ DOMAIN animations = {0, 1}
    /\ Len(animations[1].frames) >= 1

\* The rotation a single remap of a quaternion rotation gives: x and z
\* negated, y and w kept.
FlippedOnce(rotation) ==
    IF rotation.tag = "quat"
    THEN Quat(<<XNeg(rotation.v[1]), rotation.v[2], XNeg(rotation.v[3]), rotation.v[4]>>)
    ELSE [tag |-> "flip_xz", of |-> rotation]

NegatedY(v) == <<v[1], XNeg(v[2]), v[3]>>

\* C13: the static transform of every object built is the node's rest pose
\* remapped once (vertical translation negated, the Euler angles of the
\* rotation with x and z negated), and every frame of its animations is the
\* loader's frame remapped once (vertical translation negated, x and z of
\* the quaternion negated), with time, scale and weights as loaded.
C13_RemapAppliedOnce ==
    \A n \in DOMAIN objects :
        LET o == objects[n]
            rest == asset.rest[n]
        IN  /\ o.transform.translation = NegatedY(rest.translation)
            /\ o.transform.rotation =
                  Euler(QuaterionsToZyxEuler(FlippedOnce(Quat(rest.rotation))))
            /\ o.transform.scale = rest.scale
            /\ Len(o.animations) = IF n \in DOMAIN animations THEN 1 ELSE 0
            /\ \A i \in 1..Len(o.animations) :
                  /\ Len(o.animations[i].frames) = Len(animations[n].frames)
                  /\ \A k \in 1..Len(animations[n].frames) :
                        LET src == animations[n].frames[k]
                            out == o.animations[i].frames[k]
                        IN  /\ out.time = src.time
                            /\ out.value.translation = NegatedY(src.value.translation)
                            /\ out.value.rotation = FlippedOnce(src.value.rotation)
                            /\ out.value.scale = src.value.scale
                            /\ out.value.weights = src.value.weights

\* Both nodes built, one animated by a translation and a rotation channel
\* and one without a track, the vertical translation of a frame not zero.
C13_Witness ==
    /\ pc = "done"
    /\ DOMAIN objects = {0, 1}
    /\ DOMAIN animations = {0}
    /\ AnimatedKinds(0) = {"Translation", "Rotation"}
    /\ Len(objects[0].animations[1].frames) = 2
    /\ objects[0].animations[1].frames[2].value.translation[2] # R(0)
    /\ objects[0].animations[1].frames[2].value.translation #
           animations[0].frames[2].value.translation
    /\ objects[0].kind = "Mesh"
    /\ objects[1].kind = "Empty"

\* C14: every frame of every track, those of the merge under way included,
\* carries a morph-weight vector of width 4.
C14_WeightsHaveFixedWidth ==
    /\ pc = "merge" =>
          \A k \in 1..Len(frames) : Len(frames[k].value.weights) = WeightWidth
    /\ \A n \in DOMAIN animations :
          \A k \in 1..Len(animations[n].frames) :
              Len(animations[n].frames[k].value.weights) = WeightWidth

\* Two angles in degrees differ by at most 1.
WithinOneDegree(a, b) ==
    /\ IsFin(a) /\ IsFin(b)
    /\ XLeq(XSub(a, b), R(1))
    /\ XLeq(XSub(b, a), R(1))

\* The quaternion the static rotation of the object of node n was extracted
\* from.
Extracted(n) == FlipXZ(Quat(asset.rest[n].rotation))

\* sin(pitch) and sin(roll) cos(pitch) of a unit quaternion <<x, y, z, w>>.
SinPitch(v) == XMul(R(2), XSub(XMul(v[4], v[2]), XMul(v[3], v[1])))
SinRollCosPitch(v) == XMul(R(2), XAdd(XMul(v[4], v[1]), XMul(v[2], v[3])))

\* The angles of the object of node n are those of quaterions_to_zyx_euler2
\* within 1 degree.
AgreesWithReference(n) ==
    LET e == objects[n].transform.rotation.angles
        e2 == QuaterionsToZyxEuler2(Extracted(n))
    IN  /\ WithinOneDegree(e.x, e2.x)
        /\ WithinOneDegree(e.y, e2.y)
        /\ WithinOneDegree(e.z, e2.z)

\* C15 (its second half): the angles quaterions_to_zyx_euler gave for the
\* static rotation of every object agree with those of
\* quaterions_to_zyx_euler2 within 1 degree on every component, for every
\* unit quaternion outside gimbal lock, be that a pitch of +-90 degrees or,
\* as the specification names it, |sin(roll)| = 1 (the case the function
\* zeroes the yaw in).
C15_EulerExtractionsAgree ==
    \/ \A n \in DOMAIN objects :
          (ExactUnit(Extracted(n)) /\ SinPitch(Extracted(n).v) \notin {R(1), R(-1)})
              => AgreesWithReference(n)
    \/ \A n \in DOMAIN objects :
          (ExactUnit(Extracted(n)) /\ SinRollCosPitch(Extracted(n).v) \notin {R(1), R(-1)})
              => AgreesWithReference(n)

\* Every cursor of the node under merge is Finished.
AllFinished == \A i \in 1..Len(animation_channels) : animation_channels[i].is_finished

\* No cursor, of the node under merge or as first built, is past the end of
\* its channel.
IndexesInRange ==
    /\ \A i \in 1..Len(animation_channels) :
          animation_channels[i].index <= Len(animation_channels[i].data.times)
    /\ \A n \in DOMAIN nodes_channels :
          \A i \in 1..Len(nodes_channels[n]) :
              nodes_channels[n][i].index <= Len(nodes_channels[n][i].data.times)

\* The keyframes the unfinished cursors of the node under merge have yet
\* to pass: the loop's variant.
RECURSIVE Remaining(_)
Remaining(i) ==
    IF i = 0 THEN 0
    ELSE Remaining(i - 1) +
         (IF animation_channels[i].is_finished THEN 0
          ELSE Len(animation_channels[i].data.times) - animation_channels[i].index)

\* Remaining of the cursors after the step.
RECURSIVE RemainingAfter(_)
RemainingAfter(i) ==
    IF i = 0 THEN 0
    ELSE RemainingAfter(i - 1) +
         (IF animation_channels'[i].is_finished THEN 0
          ELSE Len(animation_channels'[i].data.times) - animation_channels'[i].index)

\* C16: the merge loop over the channels of a valid asset (one value per
\* keyframe time) terminates: in every turn the index of each
\* unfinished cursor strictly increases and the keyframes yet to pass
\* become fewer; no index ever exceeds its channel's length; the loop
\* takes another turn exactly while some cursor is unfinished, and once all
\* cursors are Finished its only step is the exit, with the frames it has.
C16_MergeTerminates ==
    /\ [][FrameAppended =>
            /\ \A i \in 1..Len(animation_channels) :
                  ~animation_channels[i].is_finished =>
                      animation_channels'[i].index > animation_channels[i].index
            /\ RemainingAfter(Len(animation_channels)) < Remaining(Len(animation_channels))
            /\ RemainingAfter(Len(animation_channels)) >= 0]_vars
    /\ [][(pc = "merge" /\ pc' = "merge") => FrameAppended]_vars
    /\ []IndexesInRange
    /\ [](pc = "merge" => (MinValue(animation_channels).some <=> ~AllFinished))
    /\ [][(pc = "merge" /\ AllFinished) => (pc' = "nodes" /\ frames' = frames)]_vars

\* A merge that took two turns, the second with one cursor already
\* Finished, and has every cursor Finished at the end of its channel.
C16_Witness ==
    /\ pc = "merge"
    /\ Len(frames) = 2
    /\ Len(animation_channels) = 2
    /\ AllFinished
    /\ animation_channels[1].index = 1
    /\ animation_channels[2].index = 2

\* The value the next frame of the node under merge would start from.
NextSeed ==
    IF Len(frames) = 0 THEN animation_channels[1].default_data
    ELSE FromPreviousFrame(frames[Len(frames)])

\* C17: a Finished cursor stays as it is through every later turn of the
\* loop (the flag is not cleared, the index does not move); a call of next
\* on it, for whatever frame time, returns the cursor and the frame value
\* unchanged; and min_value never selects it.
C17_FinishedIsTerminal ==
    /\ [][(pc = "merge" /\ pc' = "merge") =>
            \A i \in 1..Len(animation_channels) :
                animation_channels[i].is_finished =>
                    animation_channels'[i] = animation_channels[i]]_vars
    /\ [](pc = "merge" =>
            \A i \in 1..Len(animation_channels) :
                animation_channels[i].is_finished =>
                    \A t \in 0..MaxTime :
                        CursorNext(animation_channels[i], NextSeed, t) =
                            [chan |-> animation_channels[i], value |-> NextSeed,
                             fault |-> "none"])
    /\ [](pc = "merge" =>
            LET min_iter == MinValue(animation_channels)
            IN  min_iter.some => ~animation_channels[min_iter.idx].is_finished)

\* A second turn of the loop taken with the second cursor Finished since the
\* first: the cursor is as it was and its property has the value it wrote.
C17_Witness ==
    /\ pc = "merge"
    /\ Len(frames) = 2
    /\ Len(animation_channels) = 2
    /\ DistinctKinds(node_id)
    /\ animation_channels[2].is_finished
    /\ animation_channels[2].index = 1
    /\ animation_channels[1].index = 2
    /\ GetProp(frames[2].value, animation_channels[2].data.kind) =
           Into(animation_channels[2].data.kind, animation_channels[2].data.items[1])

\* No unfinished cursor after cursor i in the list animates the property
\* of cursor i (and writes it after cursor i has).
LastWriter(i) ==
    \A j \in (i + 1)..Len(animation_channels) :
        animation_channels[j].data.kind = animation_channels[i].data.kind
            => animation_channels[j].is_finished

\* Cursor i is unfinished and its current keyframe is at time t.
AtKeyframe(i, t) ==
    /\ ~animation_channels[i].is_finished
    /\ PeekTime(animation_channels[i]) = [some |-> TRUE, time |-> t]

\* C18: when a frame is appended, the property of every unfinished cursor
\* whose current keyframe time equals the frame's time holds the cursor's
\* raw value at its index, whatever the cursor's interpolation mode and the
\* value carried forward (a later cursor of the same property may write
\* over it).
C18_KeyframeTimeTakesRawValue ==
    [][FrameAppended =>
        \A i \in 1..Len(animation_channels) :
            (AtKeyframe(i, frames'[Len(frames')].time) /\ LastWriter(i)) =>
                GetProp(frames'[Len(frames')].value, animation_channels[i].data.kind) =
                    Into(animation_channels[i].data.kind,
                         animation_channels[i].data.items[animation_channels[i].index + 1])
      ]_vars

\* A Cubic and a Step cursor, both at their second keyframe at the time of
\* the second frame, wrote raw values that differ from the carried ones.
C18_Witness ==
    /\ pc = "merge"
    /\ Len(frames) = 2
    /\ Len(animation_channels) = 2
    /\ animation_channels[1].interpolation_type = "Cubic"
    /\ animation_channels[2].interpolation_type = "Step"
    /\ animation_channels[1].data.kind = "Rotation"
    /\ animation_channels[2].data.kind = "MorphWeights"
    /\ Len(animation_channels[1].data.items) = 2
    /\ Len(animation_channels[2].data.items) = 2
    /\ frames[2].value.rotation = Quat(animation_channels[1].data.items[2])
    /\ frames[2].value.weights = animation_channels[2].data.items[2]
    /\ frames[2].value.rotation # frames[1].value.rotation
    /\ frames[2].value.weights # frames[1].value.weights

\* The largest number of keyframes among the channels of node n.
MostKeyframes(n) ==
    LET counts == {Len(nodes_channels[n][i].data.times) : i \in 1..Len(nodes_channels[n])}
    IN  CHOOSE c \in counts : \A d \in counts : d <= c

\* C19: with k frames of a node appended, every cursor of the node has
\* index min(k, n), n its number of keyframes; appending a frame advances
\* each unfinished cursor by exactly one; and a returned track has as many
\* frames as the longest of the node's channels has keyframes.
C19_OneFramePerKeyframeIndex ==
    /\ [](pc = "merge" =>
            \A i \in 1..Len(animation_channels) :
                animation_channels[i].index =
                    Min2(Len(frames), Len(animation_channels[i].data.times)))
    /\ [][FrameAppended =>
            \A i \in 1..Len(animation_channels) :
                ~animation_channels[i].is_finished =>
                    animation_channels'[i].index = animation_channels[i].index + 1]_vars
    /\ [](pc = "done" =>
            \A n \in DOMAIN animations : Len(animations[n].frames) = MostKeyframes(n))

\* After the first frame of two channels with one and two keyframes at
\* different first times, both cursors are at index 1 and only the longer
\* one is unfinished.
C19_Witness ==
    /\ pc = "merge"
    /\ Len(frames) = 1
    /\ Len(animation_channels) = 2
    /\ Len(animation_channels[1].data.times) = 1
    /\ Len(animation_channels[2].data.times) = 2
    /\ animation_channels[1].data.times[1] > animation_channels[2].data.times[1]
    /\ animation_channels[1].index = 1
    /\ animation_channels[2].index = 1
    /\ animation_channels[1].is_finished
    /\ ~animation_channels[2].is_finished

\* Cursor i interpolates in the turn that appends the frame of time t: it
\* is unfinished and its current keyframe is at another time.
Interpolates(i, t) ==
    /\ ~animation_channels[i].is_finished
    /\ animation_channels[i].index < Len(animation_channels[i].data.items)
    /\ ShouldInterpolate(animation_channels[i], animation_channels[i].data.times, t).some

\* The value the turn started from: the node default or the frame before.
CarriedValue ==
    IF Len(frames) = 0 THEN animation_channels[1].default_data
    ELSE FromPreviousFrame(frames[Len(frames)])

\* C20: when a frame is appended and a cursor interpolated for it, the
\* frame's time (the divisor) is not zero and the fraction, the cursor's
\* keyframe time over the frame's time, lies in [0, 1]; every component of
\* a Linear translation or scale then lies between the carried value and
\* the cursor's raw value.
C20_FractionIsInUnitInterval ==
    [][FrameAppended =>
        LET t == frames'[Len(frames')].time
        IN  \A i \in 1..Len(animation_channels) :
                Interpolates(i, t) =>
                    LET c == animation_channels[i]
                        amount == XDiv(R(c.data.times[c.index + 1]), R(t))
                    IN  /\ t # 0
                        /\ XLeq(R(0), amount)
                        /\ XLeq(amount, R(1))
                        /\ (/\ c.interpolation_type = "Linear"
                            /\ c.data.kind \in {"Translation", "Scaling"}
                            /\ LastWriter(i)
                            /\ SoleOfKind(node_id, i)) =>
                               \A x \in 1..3 :
                                   XBetween(GetProp(frames'[Len(frames')].value,
                                                    c.data.kind)[x],
                                            GetProp(CarriedValue, c.data.kind)[x],
                                            c.data.items[c.index + 1][x])
      ]_vars

\* The floats per keyframe of the buffer of channel ch.
FloatsPerKey(ch) == Len(ch.outputs.values) \div Len(ch.inputs)

\* C21: the cursor of a MorphTargetWeights channel with F >= 1 keyframe
\* times and a buffer of W * F floats, W >= 1, holds exactly F weight
\* vectors of length 4, the i-th made of the first min(W, 4) floats of the
\* i-th group of W floats of the buffer and, when W < 4, zeros after them.
C21_WeightsDecodedInGroups ==
    \A n \in DOMAIN nodes_channels :
        \A c \in 1..Len(nodes_channels[n]) :
            LET ch == ChannelsOf(n)[c]
                F == Len(ch.inputs)
                W == FloatsPerKey(ch)
                items == nodes_channels[n][c].data.items
            IN  (/\ ch.outputs.variant = "MorphTargetWeights"
                 /\ F >= 1 /\ W >= 1
                 /\ Len(ch.outputs.values) = W * F) =>
                    /\ Len(items) = F
                    /\ \A i \in 1..F :
                          /\ Len(items[i]) = 4
                          /\ \A j \in 1..4 :
                                items[i][j] =
                                    IF j <= Min2(W, 4)
                                    THEN ch.outputs.values[(i - 1) * W + j]
                                    ELSE R(0)

\* A channel of two keyframes and five floats per keyframe decoded: its
\* second vector is the floats 6 to 9 of the buffer.
C21_Witness ==
    /\ 0 \in DOMAIN nodes_channels
    /\ Len(asset.channels[1].inputs) = 2
    /\ FloatsPerKey(asset.channels[1]) = 5
    /\ nodes_channels[0][1].data.items[2] = <<R(6), R(7), R(8), R(9)>>

\* C22: the sine of the pitch is within [-1, 1] when quaterions_to_zyx_euler
\* takes its arc sine: the pitch of the static rotation of every object
\* built is a number, never NaN.
C22_PitchIsNeverNaN ==
    \A n \in DOMAIN objects : ~IsNaN(objects[n].transform.rotation.angles.y)

\* Angles a and b differ by a whole number of turns.
TurnsApart(a, b) == (a - b) % 360 = 0

\* The inputs a whole number of turns from the converted angles on every
\* axis.
TurnsFromInput ==
    {e \in [1..3 -> EulerDegrees] : \A i \in 1..3 : TurnsApart(e[i], euler_angles[i])}

SameSide(a, b) == (a >= 0 /\ b >= 0) \/ (a <= 0 /\ b <= 0)

C24_TracksInDocumentOrder ==
    DOMAIN worker_out = {} =>
        data_animations =
            TracksByNode([i \in 1..Len(doc_animations) |-> LoadedTracks(doc_animations[i])])

\* The model of the file at path is the row of the path's hash.
Stored(models, path) ==
    /\ PathHash(path) \in DOMAIN models
    /\ models[PathHash(path)] = LoadSceneList(path).data

\* C25: a call of save_all_to_cache that returns an error leaves the rows of
\* the models table as they were, and a call that returns Ok has stored the
\* model of every path of its list.
C25_SaveIsAllOrNothing ==
    [][ffi_result'.fn = "save_all_to_cache" =>
          /\ ffi_result'.result.result_type # "Ok" => database'.models = database.models
          /\ ffi_result'.result.result_type = "Ok" =>
                \A i \in DOMAIN ffi_result'.model_paths.entries :
                    Stored(database'.models, ffi_result'.model_paths.entries[i])]_vars

\* The places node id i is listed at: <<"root", k>> for the k-th root and
\* <<p, k>> for the k-th child of node p.
ListedAt(i) ==
    {<<"root", k>> : k \in {k \in 1..Len(scene_tree.roots) : scene_tree.roots[k] = i}} \cup
    UNION {{<<p, k>> : k \in {k \in 1..Len(scene_tree.nodes[p + 1].children) :
                                  scene_tree.nodes[p + 1].children[k] = i}} :
              p \in 0..(Len(scene_tree.nodes) - 1)}

\* C26: every index listed in roots or in a node's children is below
\* nodes.len(), every node is listed exactly once, as a root or as a child
\* of another node, and every child index is above its parent's.
C26_TreeIsWellFormed ==
    LET n == Len(scene_tree.nodes)
    IN  /\ \A k \in 1..Len(scene_tree.roots) : scene_tree.roots[k] < n
        /\ \A p \in 0..(n - 1) :
              \A k \in 1..Len(scene_tree.nodes[p + 1].children) :
                  /\ scene_tree.nodes[p + 1].children[k] < n
                  /\ scene_tree.nodes[p + 1].children[k] > p
        /\ \A i \in 0..(n - 1) : Cardinality(ListedAt(i)) = 1

\* C27: a push whose parent id is the id of no node of the tree returns
\* Err(NodeNotFoundInTree) and leaves the tree as it was.
C27_PushWithoutParentChangesNothing ==
    [][(push_ret'.fn = "push" /\ push_ret'.root_node >= Len(scene_tree.nodes)) =>
          (push_ret'.result.tag = "Err" /\ scene_tree' = scene_tree)]_vars

\* The call was given a null pointer for a path: for the database path, for
\* the model path, for the array of model paths, or as the first entry of
\* the array; in the last three cases next to a database path that is valid.
NullPathGiven ==
    \/ ffi_result.fn \in {"load_from_cache", "load_all_from_cache", "save_all_to_cache"}
          /\ ffi_result.db_path = NullPtr
    \/ ffi_result.fn = "load_file" /\ ffi_result.model_path = NullPtr
    \/ ffi_result.fn = "load_from_cache" /\ ffi_result.model_path = NullPtr
          /\ ffi_result.db_path = "cache.db"
    \/ ffi_result.fn \in {"load_all_from_cache", "save_all_to_cache"}
          /\ ffi_result.db_path = "cache.db"
          /\ \/ ffi_result.model_paths.null
             \/ /\ ffi_result.model_paths.entries # <<>>
                /\ ffi_result.model_paths.entries[1] = NullPtr

\* C28: the result of a call of an exported function has a content pointer
\* that is not null exactly when its result_type is Ok and an
\* error_description that is not null exactly when it is not Ok, and a call
\* given a null path returns NullPath.
C28_ResultsAreWellFormed ==
    ffi_result.fn # "none" =>
        /\ ffi_result.result.content # <<>> <=> ffi_result.result.result_type = "Ok"
        /\ ffi_result.result.error_description # NullPtr <=>
              ffi_result.result.result_type # "Ok"
        /\ NullPathGiven => ffi_result.result.result_type = "NullPath"

\* C29: a call of load_all_from_cache that returns Ok returns a list of
\* model_count entries whose i-th entry is the row of the i-th path, none of
\* the paths being null.
C29_LoadAllReturnsEveryEntry ==
    (ffi_result.fn = "load_all_from_cache" /\ ffi_result.result.result_type = "Ok") =>
        LET list == ffi_result.result.content[1]
            paths == ffi_result.model_paths.entries
        IN  /\ Len(list) = ffi_result.count
            /\ \A i \in 1..ffi_result.count :
                  /\ paths[i] # NullPtr
                  /\ i <= Len(list)
                  /\ list[i] = GetFromCache(database.models, paths[i]).data

\* The items the call-th call of get_attributes draws from the iterator.
DrawnIn(call) ==
    LET stride == Len(vertex_iter.next_stride)
    IN  {k \in 1..MaxItems : (call - 1) * stride < k /\ k <= call * stride}

\* C30: every item in the slice a call of get_attributes returned was drawn
\* from the iterator during that call.
C30_AttributesAreOfTheirCall ==
    \A call \in 1..Len(attributes) :
        \A i \in 1..Len(attributes[call]) :
            attributes[call][i] # None => attributes[call][i][1] \in DrawnIn(call)

====
